---- MODULE Spec2Model ----
(***************************************************************************)
(* Trace views of the langfuse fork: the Node Name Normalizer              *)
(* (nodeNameUtils), the Execution Graph Builder (buildGraphFromStepData)   *)
(* and the Tree Builder (buildTraceUiData).                                *)
(*                                                                         *)
(* A node name is modelled as the sequence of its "."-separated segments:  *)
(* "session.parser.turn_002" is <<"session", "parser", "turn_002">>, the   *)
(* empty string is <<"">> and null/undefined is <<>>.  The regular         *)
(* expressions of the source are matched on that sequence: [^.]+ is one    *)
(* non-empty segment, \d+ a segment of digits, .+ a non-empty run of       *)
(* segments.  Edge keys are kept as pairs <<from, to>>: names are assumed  *)
(* not to hold the key separator of addEdge.                               *)
(***************************************************************************)
EXTENDS Integers, Sequences, FiniteSets, TLC

VARIABLES
    normIn,     \* the string handed to the normalizer
    normOut,    \* [once, twice, parsed]: the normalizer applied once and twice,
                \* and parseParserNodeName applied
    normPads,   \* the number of segments added to the seed name
    normPc,     \* "edit" while the input is built, "done" once normalized
    gData,      \* the collection handed to buildGraphFromStepData
    gOut,       \* its result
    gPc,        \* "collect" | "built"
    tData,      \* the collection handed to buildTraceUiData (objects are mutated)
    tInput,     \* the collection as it was at the first call
    tCalls,     \* [minLevel, rootObservationType] of every call made so far
    tOut,       \* the result of the last call
    tPc         \* "collect" | "built" | "rebuilt"

vars == <<normIn, normOut, normPads, normPc, gData, gOut, gPc, tData, tInput, tCalls, tOut, tPc>>
normVars == <<normIn, normOut, normPads, normPc>>
graphVars == <<gData, gOut, gPc>>
treeVars == <<tData, tInput, tCalls, tOut, tPc>>

\* null / undefined of a string, of a step, of an id
Null == <<>>
NoStep == -1
NoId == 0

----------------------------------------------------------------------------
(* Strings as segment sequences *)

\* segments that are \d+
DigitSegs == {"1", "2", "3", "4", "001", "002"}
\* segments that are turn_\d+, with the value parseInt gives
TurnSegs == {"turn_001", "turn_002"}
TurnValue(seg) == IF seg = "turn_001" THEN 1 ELSE 2
\* segments that are pre_[^.]+, with the tool name after the prefix
PreSegs == {"pre_web"}
PreTool(seg) == "web"
\* segments that are call_\d+, with the digits after the prefix
CallSegs == {"call_3"}
CallIndex(seg) == "3"

\* a run of segments that spells a non-empty string (the regex .+)
NonEmptyRun(segs) == Len(segs) >= 1 /\ segs # <<"">>
\* !nodeName : null, undefined or ""
Falsy(name) == name = Null \/ name = <<"">>

\* a split that keeps the empty segments
KeepAllSegments(segs) == segs

RECURSIVE FilterNonEmpty(_)
FilterNonEmpty(segs) ==
    IF segs = <<>> THEN <<>>
    ELSE IF Head(segs) = "" THEN FilterNonEmpty(Tail(segs))
         ELSE <<Head(segs)>> \o FilterNonEmpty(Tail(segs))

StartsWith(name, prefix) ==
    Len(name) >= Len(prefix) /\ SubSeq(name, 1, Len(prefix)) = prefix
\* String.startsWith("parser.")
StartsWithParserDot(name) == Len(name) >= 2 /\ name[1] = "parser"

----------------------------------------------------------------------------
(* Node Name Normalizer *)

\* PARSER_NODE_RE and parseParserNodeName: Null, or [turn, suffixSegments]
ParserBody(name) ==
    IF Len(name) >= 1 /\ name[1] = "session" THEN Tail(name) ELSE name

parseParserNodeName(name) ==
    IF Falsy(name) THEN Null
    ELSE LET b == ParserBody(name) IN
         IF /\ Len(b) >= 2
            /\ b[1] = "parser"
            /\ b[2] \in TurnSegs
            /\ (Len(b) = 2 \/ NonEmptyRun(SubSeq(b, 3, Len(b))))
         THEN [turn |-> TurnValue(b[2]),
               suffixSegments |-> FilterNonEmpty(SubSeq(b, 3, Len(b)))]
         ELSE Null

ContainerKinds ==
    {"tool_calls", "tool_results", "tool_call", "tool_result",
     "structured_output", "strucutured_output"}

isParserContainerNodeName(name) ==
    LET parsed == parseParserNodeName(name) IN
    IF parsed = Null THEN FALSE
    ELSE IF Len(parsed.suffixSegments) = 0 THEN TRUE
    ELSE IF Len(parsed.suffixSegments) > 1 THEN FALSE
    ELSE parsed.suffixSegments[1] \in ContainerKinds

\* LEGACY_TOOL_RESULT_NODE_RE and normalizeToolResultNodeName
normalizeToolResultNodeName(name) ==
    IF Falsy(name) THEN name
    ELSE IF /\ Len(name) >= 4
            /\ name[1] = "tool"
            /\ name[Len(name) - 1] = "result"
            /\ name[Len(name)] \in CallSegs
            /\ NonEmptyRun(SubSeq(name, 2, Len(name) - 2))
         THEN SubSeq(name, 2, Len(name) - 2) \o <<CallIndex(name[Len(name)])>>
         ELSE name

\* SESSION_PARSER_NODE_RE: ^session\.parser\.(?<rest>.+)$
SessionParserMatch(name) ==
    /\ Len(name) >= 3
    /\ name[1] = "session"
    /\ name[2] = "parser"
    /\ NonEmptyRun(SubSeq(name, 3, Len(name)))

\* PARSER_TURN_TOOL_PRE_RE on a name that starts with parser.
ToolPreMatch(w) ==
    /\ Len(w) = 4
    /\ w[1] = "parser"
    /\ w[2] \in TurnSegs
    /\ w[3] \in PreSegs
    /\ w[4] \in DigitSegs

\* a pattern that takes tool_call for tool_result as well
ToolResultOrCallMatch(w) ==
    /\ Len(w) = 5
    /\ w[1] = "parser"
    /\ w[2] \in TurnSegs
    /\ w[3] \in {"tool_result", "tool_call"}
    /\ w[4] # ""
    /\ w[5] \in DigitSegs

\* PARSER_TURN_TOOL_RESULT_RE on a name that starts with parser.
ToolResultMatch(w) ==
    /\ Len(w) = 5
    /\ w[1] = "parser"
    /\ w[2] \in TurnSegs
    /\ w[3] = "tool_result"
    /\ w[4] # ""
    /\ w[5] \in DigitSegs

\* a normalizer that drops a leading session. whatever follows it
NormalizeStripAnySession(name) ==
    IF Falsy(name) THEN name
    ELSE IF Len(name) >= 2 /\ name[1] = "session" THEN Tail(name)
    ELSE name

normalizeParserNodeNameForGraph(name) ==
    IF Falsy(name) THEN name
    ELSE IF ~SessionParserMatch(name) THEN name
    ELSE LET withoutSession == Tail(name) IN
         IF ToolPreMatch(withoutSession)
         THEN <<"parser", withoutSession[3], withoutSession[4]>>
         ELSE IF ToolResultMatch(withoutSession)
         THEN <<"parser", withoutSession[4], withoutSession[5]>>
         ELSE withoutSession

----------------------------------------------------------------------------
(* The normalizer applied to strings built from seed names by adding segments *)

MaxPad == 2

NormTokens ==
    {"session", "parser", "turn_002", "tool_result", "pre_web", "web", "4", ""}

NormSeeds ==
    { Null, <<"">>,
      <<"regular", "node", "name">>,
      <<"session", "parser", "turn_002", "tool_result", "web", "4">>,
      <<"session", "parser", "turn_002", "tool_call", "web", "4">>,
      <<"session", "parser", "turn_002", "pre_web", "4">>,
      <<"session", "parser", "turn_002", "tool_calls">>,
      <<"session", "parser", "turn_002", "structured_output">>,
      <<"session", "parser", "turn_002">>,
      <<"session", "parser">>,
      <<"parser", "turn_002", "tool_result", "web", "4">>,
      <<"parser", "web", "4">>,
      <<"tool", "web", "result", "call_3">>,
      <<"session", "turn", "002">> }

NormIdle == [once |-> Null, twice |-> Null, parsed |-> Null]

PrependSegment ==
    /\ normPc = "edit"
    /\ normPads < MaxPad
    /\ normIn # Null
    /\ \E tok \in NormTokens :
          normIn' = <<tok>> \o normIn
    /\ normPads' = normPads + 1
    /\ UNCHANGED <<normOut, normPc>>
    /\ UNCHANGED <<graphVars, treeVars>>

AppendSegment ==
    /\ normPc = "edit"
    /\ normPads < MaxPad
    /\ normIn # Null
    /\ \E tok \in NormTokens :
          normIn' = normIn \o <<tok>>
    /\ normPads' = normPads + 1
    /\ UNCHANGED <<normOut, normPc>>
    /\ UNCHANGED <<graphVars, treeVars>>

Normalize ==
    /\ normPc = "edit"
    /\ normOut' = [once |-> normalizeParserNodeNameForGraph(normIn),
                   twice |-> normalizeParserNodeNameForGraph(
                                 normalizeParserNodeNameForGraph(normIn)),
                   parsed |-> parseParserNodeName(normIn)]
    /\ normPc' = "done"
    /\ UNCHANGED <<normIn, normPads>>
    /\ UNCHANGED <<graphVars, treeVars>>

----------------------------------------------------------------------------
(* Helpers: JavaScript Map (insertion-ordered) as a sequence of [k, v],     *)
(* Array.prototype.sort (stable) by an integer key                          *)

MapHas(m, key) == \E i \in 1..Len(m) : m[i].k = key
MapIdx(m, key) == CHOOSE i \in 1..Len(m) : m[i].k = key
MapGet(m, key) == m[MapIdx(m, key)].v
MapSet(m, key, val) ==
    IF MapHas(m, key) THEN [m EXCEPT ![MapIdx(m, key)].v = val]
    ELSE Append(m, [k |-> key, v |-> val])
MapKeys(m) == [i \in 1..Len(m) |-> m[i].k]
MapKeySet(m) == {m[i].k : i \in 1..Len(m)}

SeqToSet(s) == {s[i] : i \in 1..Len(s)}

\* the indices of keys, ordered by key and, among equal keys, by position
StableOrder(keys) ==
    LET n == Len(keys)
        rank(i) == Cardinality({j \in 1..n :
                       keys[j] < keys[i] \/ (keys[j] = keys[i] /\ j <= i)})
    IN [p \in 1..n |-> CHOOSE i \in 1..n : rank(i) = p]

\* s sorted by keys[i], the key of s[i]
SortByKeys(s, keys) ==
    LET ord == StableOrder(keys) IN [p \in 1..Len(s) |-> s[ord[p]]]

----------------------------------------------------------------------------
(* Execution Graph Builder: buildGraphFromStepData                          *)
(* An observation is [id, name, node, step, startTime, endTime,             *)
(* observationType, level]; node may be Null, step NoStep, level NoLevel.   *)

\* the four names are declared in ./types; the LANGGRAPH names carry the same
\* strings as the LANGFUSE names
LANGFUSE_START_NODE_NAME == <<"__start__">>
LANGFUSE_END_NODE_NAME == <<"__end__">>
LANGGRAPH_START_NODE_NAME == <<"__start__">>
LANGGRAPH_END_NODE_NAME == <<"__end__">>
PositiveInfinity == 1000000
NoLevel == "NONE"
\* ids are compared by localeCompare: their order is the order of the integers
IdRadix == 100

FAILURE_NAME == <<"session", "failure">>
TRACE_START_NODE_NAME == <<"session", "trace", "start">>
NumStr == <<"1", "2", "3", "4", "5", "6">>

\* failureObservations: the observations named session.failure, by startTime then id
FailureSortKey(o) == o.startTime * IdRadix + o.id
failureObservations(data) ==
    LET f == SelectSeq(data, LAMBDA o : o.name = FAILURE_NAME) IN
    SortByKeys(f, [i \in 1..Len(f) |-> FailureSortKey(f[i])])

FailureRank(data, id) ==
    LET f == failureObservations(data) IN
    IF \E i \in 1..Len(f) : f[i].id = id
    THEN CHOOSE i \in 1..Len(f) : f[i].id = id
    ELSE 0

\* a version that keeps the node label an observation carries
EffectiveNameKeepsLabel(data, obs) ==
    IF obs.node # Null THEN obs.node
    ELSE LET r == FailureRank(data, obs.id) IN
         IF r > 0 THEN <<"session", "failure", NumStr[r]>> ELSE obs.node

\* getEffectiveRawNodeName
getEffectiveRawNodeName(data, obs) ==
    LET r == FailureRank(data, obs.id) IN
    IF r > 0 THEN <<"session", "failure", NumStr[r]>> ELSE obs.node

isSystemNode(node) ==
    \/ node = LANGFUSE_START_NODE_NAME
    \/ node = LANGFUSE_END_NODE_NAME
    \/ node = LANGGRAPH_START_NODE_NAME
    \/ node = LANGGRAPH_END_NODE_NAME

\* stepToNodesMap after the bucketing loop, as the set of <<step, raw node>>
StepToNodes(data) ==
    { <<data[i].step, getEffectiveRawNodeName(data, data[i])>> :
        i \in { j \in 1..Len(data) :
                  /\ data[j].step # NoStep
                  /\ getEffectiveRawNodeName(data, data[j]) # Null } }

\* nodeToObservationsMap after the bucketing loop (insertion-ordered)
RECURSIVE BucketObservations(_, _, _)
BucketObservations(data, i, m) ==
    IF i > Len(data) THEN m
    ELSE LET node == getEffectiveRawNodeName(data, data[i]) IN
         IF node # Null /\ ~isSystemNode(node)
         THEN BucketObservations(data, i + 1,
                  MapSet(m, node,
                         (IF MapHas(m, node) THEN MapGet(m, node) ELSE <<>>)
                             \o <<data[i].id>>))
         ELSE BucketObservations(data, i + 1, m)

\* a version that prunes only the parser names without a suffix
RedundantEmptySuffixOnly(stepNodes) ==
    { sn[2] : sn \in { x \in stepNodes :
        LET parsed == parseParserNodeName(x[2]) IN
        parsed # Null /\ Len(parsed.suffixSegments) = 0 } }

\* getRedundantParserNodes
getRedundantParserNodes(stepNodes) ==
    { sn[2] : sn \in { x \in stepNodes :
        LET parsed == parseParserNodeName(x[2]) IN
        /\ parsed # Null
        /\ \/ Len(parsed.suffixSegments) = 0
           \/ parsed.suffixSegments \in
                 {<<"tool_calls">>, <<"tool_results">>, <<"tool_call">>, <<"tool_result">>} } }

Normalized(raw) == normalizeParserNodeNameForGraph(raw)

\* every normalized node at the latest step of its raw variants
NormalizedAtLatestStep(keptStepNodes) ==
    LET names == { Normalized(sn[2]) : sn \in keptStepNodes }
        maxStep(n) == CHOOSE st \in { sn[1] : sn \in { x \in keptStepNodes : Normalized(x[2]) = n } } :
                          \A sn \in keptStepNodes : Normalized(sn[2]) = n => st >= sn[1]
    IN { <<maxStep(n), n>> : n \in names }

\* normalizedNodeToMinStep as the set of <<step, normalized node>>
NormalizedStepNodes(keptStepNodes) ==
    LET names == { Normalized(sn[2]) : sn \in keptStepNodes }
        minStep(n) == CHOOSE st \in { sn[1] : sn \in { x \in keptStepNodes : Normalized(x[2]) = n } } :
                          \A sn \in keptStepNodes : Normalized(sn[2]) = n => st <= sn[1]
    IN { <<minStep(n), n>> : n \in names }

\* normalizedNodeToObservationsMap (insertion-ordered)
RECURSIVE NormalizeObservationsMap(_, _, _)
NormalizeObservationsMap(rawMap, i, m) ==
    IF i > Len(rawMap) THEN m
    ELSE LET n == Normalized(rawMap[i].k) IN
         NormalizeObservationsMap(rawMap, i + 1,
             MapSet(m, n, (IF MapHas(m, n) THEN MapGet(m, n) ELSE <<>>) \o rawMap[i].v))

severityRank(level) ==
    CASE level = "ERROR" -> 3
      [] level = "WARNING" -> 2
      [] level = "DEFAULT" -> 1
      [] level = "DEBUG" -> 0
      [] OTHER -> -1

ObsById(data, id) == data[CHOOSE i \in 1..Len(data) : data[i].id = id]

\* observations[0]?.observationType || "UNKNOWN"
NodeTypeOf(data, obsIds) ==
    IF Len(obsIds) = 0 THEN "UNKNOWN"
    ELSE ObsById(data, obsIds[1]).observationType

\* the level of greatest severity among the node's observations, or null
NodeLevelOf(data, obsIds) ==
    LET levels == { ObsById(data, obsIds[i]).level : i \in 1..Len(obsIds) }
        known == { l \in levels : l # NoLevel }
    IN IF known = {} THEN NoLevel
       ELSE CHOOSE l \in known : \A x \in known : severityRank(x) <= severityRank(l)

GraphNode(data, obsMap, nodeName) ==
    IF nodeName = LANGFUSE_END_NODE_NAME \/ nodeName = LANGFUSE_START_NODE_NAME
    THEN [id |-> nodeName, type |-> "LANGGRAPH_SYSTEM", level |-> NoLevel]
    ELSE [id |-> nodeName,
          type |-> IF StartsWithParserDot(nodeName) THEN "PARSER"
                   ELSE NodeTypeOf(data, MapGet(obsMap, nodeName)),
          level |-> NodeLevelOf(data, MapGet(obsMap, nodeName))]

\* obsChrono: the observations with a step and a kept raw node, by startTime
obsChrono(data, prune) ==
    LET kept == SelectSeq(data, LAMBDA o :
                    /\ o.step # NoStep
                    /\ ~Falsy(getEffectiveRawNodeName(data, o))
                    /\ getEffectiveRawNodeName(data, o) \notin prune)
        mapped == [i \in 1..Len(kept) |->
                    [name |-> kept[i].name,
                     normalizedNodeName |-> Normalized(getEffectiveRawNodeName(data, kept[i])),
                     startMs |-> kept[i].startTime,
                     endMs |-> kept[i].endTime]]
    IN SortByKeys(mapped, [i \in 1..Len(mapped) |-> mapped[i].startMs])

\* SESSION_TURN_NODE_RE: ^session\.turn\.(?<turn>\d+)$
IsSessionTurnName(n) ==
    Len(n) = 3 /\ n[1] = "session" /\ n[2] = "turn" /\ n[3] \in DigitSegs

sessionTurns(chrono) ==
    LET t == SelectSeq(chrono, LAMBDA o : IsSessionTurnName(o.normalizedNodeName)) IN
    [i \in 1..Len(t) |-> [nodeName |-> t[i].normalizedNodeName, start |-> t[i].startMs,
                          end |-> t[i].endMs]]

\* the bounds as they would be if a turn were closed by its own end time
TurnEndBoundsFromEndTime(turns) ==
    [i \in 1..Len(turns) |-> turns[i].end]

\* the next turn's start, or +Infinity for the last turn; turn.end is not read
sessionTurnEndBounds(turns) ==
    [i \in 1..Len(turns) |->
        IF i < Len(turns) THEN turns[i + 1].start ELSE PositiveInfinity]

\* the active turn as it would be if the scan never moved on to a later turn
AdvanceTurnStays(idx, startMs, bounds) ==
    idx

\* the while loop that moves the active turn past the turns that ended at startMs
RECURSIVE AdvanceTurn(_, _, _)
AdvanceTurn(idx, startMs, bounds) ==
    IF idx <= Len(bounds) /\ startMs >= bounds[idx]
    THEN AdvanceTurn(idx + 1, startMs, bounds)
    ELSE idx

\* TOOL_RESULT_UI_NODE_RE: ^parser\.(?<toolName>[^.]+)\.(?<index>\d+)$
ToolResultUiMatch(n) ==
    Len(n) = 3 /\ n[1] = "parser" /\ n[2] # "" /\ n[3] \in DigitSegs
\* TOOL_CALL_UI_NODE_RE
ToolCallUiMatch(n) ==
    /\ Len(n) = 5
    /\ n[1] = "parser"
    /\ n[2] \in TurnSegs
    /\ n[3] = "tool_call"
    /\ n[4] # ""
    /\ n[5] \in DigitSegs
\* STRUCTURED_OUTPUT_UI_NODE_RE
StructuredOutputUiMatch(n) ==
    Len(n) = 3 /\ n[1] = "parser" /\ n[2] \in TurnSegs /\ n[3] = "structured_output"

\* name.includes(" - kernel.")
KernelSegs == {"A - kernel", "B - kernel"}
IsKernelName(name) == \E i \in 1..(Len(name) - 1) : name[i] \in KernelSegs

\* the loop that fills forcedParentByNodeName
RECURSIVE ForcedParents(_, _, _, _, _, _)
ForcedParents(chrono, i, turns, bounds, exists, st) ==
    IF i > Len(chrono) THEN st.forced
    ELSE
    LET o == chrono[i]
        n == o.normalizedNodeName
        idx == AdvanceTurn(st.idx, o.startMs, bounds)
        hasTurn == idx <= Len(turns)
        f1 == IF /\ hasTurn
                 /\ n # turns[idx].nodeName
                 /\ ~StartsWithParserDot(n)
                 /\ o.startMs >= turns[idx].start
                 /\ o.startMs < bounds[idx]
                 /\ turns[idx].nodeName \in exists
                 /\ n \in exists
                 /\ ~MapHas(st.forced, n)
              THEN MapSet(st.forced, n, turns[idx].nodeName)
              ELSE st.forced
        f2 == IF ToolResultUiMatch(n) /\ n \in exists /\ <<n[2], n[3]>> \in exists
              THEN MapSet(f1, n, <<n[2], n[3]>>)
              ELSE f1
        kernel == IF IsKernelName(o.name) /\ n \in exists THEN n ELSE st.kernel
        f3 == IF /\ StructuredOutputUiMatch(n)
                 /\ kernel # Null
                 /\ n \in exists
                 /\ kernel \in exists
              THEN MapSet(f2, n, kernel)
              ELSE f2
    IN ForcedParents(chrono, i + 1, turns, bounds, exists,
                     [forced |-> f3, kernel |-> kernel, idx |-> idx])

\* addEdge without the guard on parser sources
AddEdgeAllowsParserSource(edges, from, to) ==
    IF Falsy(from) \/ Falsy(to) \/ from = to THEN edges
    ELSE IF to = LANGFUSE_START_NODE_NAME THEN edges
    ELSE IF from = LANGFUSE_END_NODE_NAME THEN edges
    ELSE edges \cup {<<from, to>>}

addEdge(edges, from, to) ==
    IF Falsy(from) \/ Falsy(to) \/ from = to THEN edges
    ELSE IF to = LANGFUSE_START_NODE_NAME THEN edges
    ELSE IF from = LANGFUSE_END_NODE_NAME THEN edges
    ELSE IF StartsWithParserDot(from) THEN edges
    ELSE edges \cup {<<from, to>>}

\* addEdge over a set of candidate <<from, to>>
AddEdges(edges, cands) ==
    edges \cup { c \in cands : addEdge({}, c[1], c[2]) # {} }

\* a version in which the nodes of every step also connect to the end node
GenerateEdgesEveryStepToEnd(stepNodes) ==
    LET steps == { sn[1] : sn \in stepNodes }
        nodesAt(st) == { sn[2] : sn \in { x \in stepNodes : x[1] = st } }
        isLast(st) == \A o \in steps : o <= st
        next(st) == CHOOSE o \in steps : o > st /\ \A x \in steps : x > st => o <= x
        targets(st) == IF isLast(st) THEN {LANGFUSE_END_NODE_NAME}
                       ELSE nodesAt(next(st)) \cup {LANGFUSE_END_NODE_NAME}
        sources(st) == { y \in nodesAt(st) : y # LANGFUSE_END_NODE_NAME
                                              /\ y # LANGGRAPH_END_NODE_NAME }
    IN UNION { { ct \in sources(st) \X targets(st) : ct[1] # ct[2] } : st \in steps }

\* generateEdgesWithParallelBranches over the set of <<step, node>>
generateEdgesWithParallelBranches(stepNodes) ==
    LET steps == { sn[1] : sn \in stepNodes }
        nodesAt(st) == { sn[2] : sn \in { x \in stepNodes : x[1] = st } }
        isLast(st) == \A o \in steps : o <= st
        next(st) == CHOOSE o \in steps : o > st /\ \A x \in steps : x > st => o <= x
        targets(st) == IF isLast(st) THEN {LANGFUSE_END_NODE_NAME} ELSE nodesAt(next(st))
        sources(st) == { y \in nodesAt(st) : y # LANGFUSE_END_NODE_NAME
                                              /\ y # LANGGRAPH_END_NODE_NAME }
    IN UNION { { ct \in sources(st) \X targets(st) : ct[1] # ct[2] } : st \in steps }

\* byTurnNodeName as first filled from sessionTurns
RECURSIVE InitByTurn(_, _, _)
InitByTurn(turns, i, m) ==
    IF i > Len(turns) THEN m
    ELSE InitByTurn(turns, i + 1,
             MapSet(m, turns[i].nodeName,
                    <<[k |-> turns[i].nodeName, v |-> turns[i].start]>>))

\* the loop that fills byTurnNodeName and latestKernelByTurn
RECURSIVE TurnScan(_, _, _, _, _, _)
TurnScan(chrono, i, turns, bounds, exists, st) ==
    IF i > Len(chrono) THEN st
    ELSE
    LET o == chrono[i]
        n == o.normalizedNodeName
        idx == AdvanceTurn(st.idx, o.startMs, bounds)
    IN IF \/ idx > Len(turns)
          \/ o.startMs < turns[idx].start
          \/ o.startMs >= bounds[idx]
       THEN TurnScan(chrono, i + 1, turns, bounds, exists, [st EXCEPT !.idx = idx])
       ELSE
       LET turnNode == turns[idx].nodeName
           kernels == IF IsKernelName(o.name)
                      THEN MapSet(st.kernelByTurn, turnNode, n)
                      ELSE st.kernelByTurn
           inner == MapGet(st.byTurn, turnNode)
           byTurn == IF ~StartsWithParserDot(n) /\ n \in exists /\ ~MapHas(inner, n)
                     THEN MapSet(st.byTurn, turnNode, MapSet(inner, n, o.startMs))
                     ELSE st.byTurn
       IN TurnScan(chrono, i + 1, turns, bounds, exists,
                   [byTurn |-> byTurn, kernelByTurn |-> kernels, idx |-> idx])

\* the chains as they would be if the turn node were left where the sort puts it
TurnChainsByTimeOnly(turns, byTurn) ==
    [i \in 1..Len(turns) |->
        LET inner == MapGet(byTurn, turns[i].nodeName)
            sorted == SortByKeys(inner, [j \in 1..Len(inner) |-> inner[j].v])
        IN [turnNode |-> turns[i].nodeName, chain |-> MapKeys(sorted)]]

\* turnChains: per turn of sessionTurns, the turn node and its chain
turnChains(turns, byTurn) ==
    [i \in 1..Len(turns) |->
        LET inner == MapGet(byTurn, turns[i].nodeName)
            sorted == SortByKeys(inner, [j \in 1..Len(inner) |-> inner[j].v])
            names == MapKeys(sorted)
            turnNode == turns[i].nodeName
        IN [turnNode |-> turnNode,
            chain |-> IF turnNode \in SeqToSet(names)
                      THEN <<turnNode>> \o SelectSeq(names, LAMBDA x : x # turnNode)
                      ELSE names]]

Last(s) == s[Len(s)]

\* the last member of the first turn's chain
LastOfFirstChain(chains) ==
    IF \E i \in 1..Len(chains) : Len(chains[i].chain) > 0
    THEN Last(chains[CHOOSE i \in 1..Len(chains) :
                 /\ Len(chains[i].chain) > 0
                 /\ \A j \in 1..Len(chains) : Len(chains[j].chain) > 0 => i <= j].chain)
    ELSE Null

\* lastMainNode: the last member of the last non-empty chain
lastMainNode(chains) ==
    IF \E i \in 1..Len(chains) : Len(chains[i].chain) > 0
    THEN Last(chains[CHOOSE i \in 1..Len(chains) :
                 /\ Len(chains[i].chain) > 0
                 /\ \A j \in 1..Len(chains) : Len(chains[j].chain) > 0 => j <= i].chain)
    ELSE Null

\* the first member of the last non-empty chain
FirstOfLastChain(chains) ==
    IF \E i \in 1..Len(chains) : Len(chains[i].chain) > 0
    THEN chains[CHOOSE i \in 1..Len(chains) :
                 /\ Len(chains[i].chain) > 0
                 /\ \A j \in 1..Len(chains) : Len(chains[j].chain) > 0 => j <= i].chain[1]
    ELSE Null

\* firstTurnMainNode: the first member of the first non-empty chain
firstTurnMainNode(chains) ==
    IF \E i \in 1..Len(chains) : Len(chains[i].chain) > 0
    THEN chains[CHOOSE i \in 1..Len(chains) :
                 /\ Len(chains[i].chain) > 0
                 /\ \A j \in 1..Len(chains) : Len(chains[j].chain) > 0 => i <= j].chain[1]
    ELSE Null

\* the start time of the first observation of a normalized node, if it has one
NodeFirstStart(chrono, nodeName) ==
    LET ts == { chrono[i].startMs :
                  i \in { j \in 1..Len(chrono) : chrono[j].normalizedNodeName = nodeName } }
    IN IF ts = {} THEN -1 ELSE CHOOSE t \in ts : \A u \in ts : t <= u

findTurnForNode(chrono, turns, bounds, nodeName) ==
    LET ts == NodeFirstStart(chrono, nodeName)
        hit == { i \in 1..Len(turns) : ts >= turns[i].start /\ ts < bounds[i] }
    IN IF ts = -1 \/ hit = {} THEN Null
       ELSE turns[CHOOSE i \in hit : \A j \in hit : i <= j].nodeName

\* the attachment as it would be if structured-output nodes were left alone
ParserAttachToolsOnly(chrono, turns, bounds, exists, kernelByTurn, nodeName) ==
    IF ~StartsWithParserDot(nodeName) THEN {}
    ELSE IF ToolResultUiMatch(nodeName)
    THEN IF <<nodeName[2], nodeName[3]>> \in exists
         THEN {<<(<<nodeName[2], nodeName[3]>>), nodeName>>} ELSE {}
    ELSE IF ToolCallUiMatch(nodeName)
    THEN IF <<nodeName[4], nodeName[5]>> \in exists
         THEN {<<(<<nodeName[4], nodeName[5]>>), nodeName>>} ELSE {}
    ELSE {}

\* the candidate edge that attaches a parser node to its parent, if any
ParserAttachEdges(chrono, turns, bounds, exists, kernelByTurn, nodeName) ==
    IF ~StartsWithParserDot(nodeName) THEN {}
    ELSE IF ToolResultUiMatch(nodeName)
    THEN IF <<nodeName[2], nodeName[3]>> \in exists
         THEN {<<(<<nodeName[2], nodeName[3]>>), nodeName>>} ELSE {}
    ELSE IF ToolCallUiMatch(nodeName)
    THEN IF <<nodeName[4], nodeName[5]>> \in exists
         THEN {<<(<<nodeName[4], nodeName[5]>>), nodeName>>} ELSE {}
    ELSE IF StructuredOutputUiMatch(nodeName)
    THEN LET turnNode == findTurnForNode(chrono, turns, bounds, nodeName)
             kernelNode == IF turnNode # Null /\ MapHas(kernelByTurn, turnNode)
                           THEN MapGet(kernelByTurn, turnNode) ELSE Null
         IN IF kernelNode # Null /\ kernelNode \in exists
            THEN {<<kernelNode, nodeName>>} ELSE {}
    ELSE {}

\* the edges of the branch taken when sessionTurns is not empty
TurnPathEdges(chrono, turns, bounds, exists) ==
    LET scan == TurnScan(chrono, 1, turns, bounds, exists,
                    [byTurn |-> InitByTurn(turns, 1, <<>>), kernelByTurn |-> <<>>, idx |-> 1])
        chains == turnChains(turns, scan.byTurn)
        inChain == UNION { { <<chains[i].chain[j], chains[i].chain[j + 1]>> :
                               j \in 1..(Len(chains[i].chain) - 1) } : i \in 1..Len(chains) }
        betweenTurns == { <<Last(chains[i].chain), chains[i + 1].turnNode>> :
                            i \in { j \in 1..(Len(chains) - 1) : Len(chains[j].chain) > 0 } }
        parserEdges == UNION { ParserAttachEdges(chrono, turns, bounds, exists,
                                                 scan.kernelByTurn, n) : n \in exists }
        first == firstTurnMainNode(chains)
        traceStart == IF TRACE_START_NODE_NAME \in exists THEN TRACE_START_NODE_NAME ELSE Null
        startAnchor == IF traceStart # Null THEN traceStart ELSE first
        startEdges == (IF startAnchor # Null
                       THEN {<<LANGFUSE_START_NODE_NAME, startAnchor>>} ELSE {})
                      \cup (IF traceStart # Null /\ first # Null /\ traceStart # first
                            THEN {<<traceStart, first>>} ELSE {})
        last == lastMainNode(chains)
        endEdges == IF last # Null THEN {<<last, LANGFUSE_END_NODE_NAME>>} ELSE {}
        all == AddEdges({}, inChain \cup betweenTurns \cup parserEdges
                            \cup startEdges \cup endEdges)
    IN IF last # Null
       THEN { e \in all : ~(e[2] = LANGFUSE_END_NODE_NAME /\ e[1] # last) }
       ELSE all

\* the fallback branch as it would be without the forced-parent edges
FallbackStepEdgesOnly(normStepNodes, forced) ==
    AddEdges({}, generateEdgesWithParallelBranches(normStepNodes))

\* the edges of the fallback branch
FallbackEdges(normStepNodes, forced) ==
    AddEdges({}, generateEdgesWithParallelBranches(normStepNodes)
                 \cup { <<forced[i].v, forced[i].k>> : i \in 1..Len(forced) })

EmptyGraph == [nodes |-> <<>>, edges |-> {}, nodeToObservationsMap |-> <<>>]

\* the map as it would be if every session parser label were deleted from it
\* while the steps kept theirs
PrunedOfAllParserLabels(rawMap, prune) ==
    SelectSeq(rawMap, LAMBDA e : e.k \notin prune /\ ~SessionParserMatch(e.k))

PrunedObservationsMap(rawMap, prune) ==
    SelectSeq(rawMap, LAMBDA e : e.k \notin prune)

GraphTurns(data) ==
    sessionTurns(obsChrono(data, getRedundantParserNodes(StepToNodes(data))))

buildGraphFromStepData(data) ==
    IF Len(data) = 0 THEN EmptyGraph
    ELSE
    LET stepNodes == StepToNodes(data)
        prune == getRedundantParserNodes(stepNodes)
        keptStepNodes == { sn \in stepNodes : sn[2] \notin prune }
        rawMap == PrunedObservationsMap(BucketObservations(data, 1, <<>>), prune)
        normStepNodes == NormalizedStepNodes(keptStepNodes)
        obsMap == NormalizeObservationsMap(rawMap, 1, <<>>)
        exists == MapKeySet(obsMap)
        nodeNames == <<LANGFUSE_START_NODE_NAME>> \o MapKeys(obsMap)
                         \o <<LANGFUSE_END_NODE_NAME>>
        chrono == obsChrono(data, prune)
        turns == sessionTurns(chrono)
        bounds == sessionTurnEndBounds(turns)
        forced == ForcedParents(chrono, 1, turns, bounds, exists,
                                [forced |-> <<>>, kernel |-> Null, idx |-> 1])
    IN [nodes |-> [i \in 1..Len(nodeNames) |-> GraphNode(data, obsMap, nodeNames[i])],
        edges |-> IF Len(turns) > 0
                  THEN TurnPathEdges(chrono, turns, bounds, exists)
                  ELSE FallbackEdges(normStepNodes, forced),
        nodeToObservationsMap |-> obsMap]

----------------------------------------------------------------------------
(* The graph builder called on a collection of observations *)

MaxGraphObs == 3

GObs(id, name, node, step, start, type, level) ==
    [id |-> id, name |-> name, node |-> node, step |-> step, startTime |-> start,
     endTime |-> start + 1, observationType |-> type, level |-> level]

TURN1 == <<"session", "turn", "001">>
TURN2 == <<"session", "turn", "002">>
KERNEL_A == <<"A - kernel", "respond">>
KERNEL_B == <<"B - kernel", "respond">>
TOOL_WEB == <<"web", "3">>
RAW_RESULT == <<"session", "parser", "turn_001", "tool_result", "web", "3">>
RAW_CALLS == <<"session", "parser", "turn_001", "tool_calls">>
RAW_STRUCTURED == <<"session", "parser", "turn_001", "structured_output">>
UI_RESULT == <<"parser", "web", "3">>

\* the observations a collection is drawn from (ids are unique)
GraphCandidates ==
    { GObs(1, TURN1, TURN1, 1, 0, "CHAIN", NoLevel),
      GObs(2, TURN2, TURN2, 3, 2, "CHAIN", NoLevel),
      GObs(3, KERNEL_A, KERNEL_A, 2, 1, "AGENT", "DEFAULT"),
      GObs(4, TOOL_WEB, TOOL_WEB, 2, 1, "TOOL", "DEFAULT"),
      GObs(5, TOOL_WEB, TOOL_WEB, 1, 2, "SPAN", "ERROR"),
      GObs(6, RAW_RESULT, RAW_RESULT, 3, 1, "SPAN", "DEFAULT"),
      GObs(7, RAW_CALLS, RAW_CALLS, 1, 0, "SPAN", "DEFAULT"),
      GObs(8, RAW_CALLS, RAW_CALLS, NoStep, 1, "SPAN", "DEFAULT"),
      GObs(9, RAW_STRUCTURED, RAW_STRUCTURED, 3, 2, "SPAN", "DEFAULT"),
      GObs(10, FAILURE_NAME, TURN1, 2, 1, "SPAN", "ERROR"),
      GObs(11, FAILURE_NAME, Null, NoStep, 1, "SPAN", "ERROR"),
      GObs(12, TRACE_START_NODE_NAME, TRACE_START_NODE_NAME, 1, 0, "SPAN", NoLevel),
      GObs(13, TURN2, TURN2, NoStep, 1, "CHAIN", NoLevel),
      GObs(14, LANGFUSE_END_NODE_NAME, LANGFUSE_END_NODE_NAME, 4, 2, "LANGGRAPH_SYSTEM", NoLevel),
      GObs(15, TURN1, TURN1, 3, 2, "CHAIN", NoLevel),
      GObs(16, UI_RESULT, UI_RESULT, 1, 0, "SPAN", "WARNING"),
      GObs(17, KERNEL_B, KERNEL_B, 4, 3, "AGENT", "DEFAULT") }

GraphIdle == [nodes |-> <<>>, edges |-> {}, nodeToObservationsMap |-> <<>>]

\* the caller adds one more observation to the collection it will pass
AddGraphObservation ==
    /\ gPc = "collect"
    /\ Len(gData) < MaxGraphObs
    /\ \E o \in GraphCandidates :
          /\ \A i \in 1..Len(gData) : gData[i].id # o.id
          /\ gData' = Append(gData, o)
    /\ UNCHANGED <<gOut, gPc>>
    /\ UNCHANGED <<normVars, treeVars>>

\* buildGraphFromStepData(gData)
BuildGraph ==
    /\ gPc = "collect"
    /\ gOut' = buildGraphFromStepData(gData)
    /\ gPc' = "built"
    /\ UNCHANGED gData
    /\ UNCHANGED <<normVars, treeVars>>

----------------------------------------------------------------------------
(* Trace Tree Builder: buildTraceUiData                                     *)
(* An observation is [id, name, parentObservationId, startTime, level, type, *)
(* totalCost, inputCost, outputCost]; parentObservationId may be NoId and a *)
(* cost NoCost.  Ids are unique.  The objects of the collection are shared  *)
(* with the caller, so a build returns the collection as it leaves it.      *)

NoCost == -1
TraceNodeId == 100
ascendingLevels == <<"DEBUG", "DEFAULT", "WARNING", "ERROR">>

\* the levels strictly above minLevel
LevelsStrictlyAbove(minLevel) ==
    IF minLevel = NoLevel THEN SeqToSet(ascendingLevels)
    ELSE LET k == CHOOSE i \in 1..Len(ascendingLevels) : ascendingLevels[i] = minLevel
         IN { ascendingLevels[i] : i \in (k + 1)..Len(ascendingLevels) }

\* getObservationLevels: the levels at or above minLevel
getObservationLevels(minLevel) ==
    IF minLevel = NoLevel THEN SeqToSet(ascendingLevels)
    ELSE LET k == CHOOSE i \in 1..Len(ascendingLevels) : ascendingLevels[i] = minLevel
         IN { ascendingLevels[i] : i \in k..Len(ascendingLevels) }

\* getUiNodeName: normalizeParserNodeNameForGraph(name) ?? name ?? ""
getUiNodeName(observationName) ==
    LET n == normalizeParserNodeNameForGraph(observationName) IN
    IF n = Null THEN <<"">> ELSE n

\* the positions of listWithoutParserContainers and of mutableList in list
WithoutParserContainers(list) ==
    { i \in 1..Len(list) : ~isParserContainerNodeName(list[i].name) }
KeptPositions(list, minLevel) ==
    { i \in WithoutParserContainers(list) :
        list[i].level \in getObservationLevels(minLevel) }

\* parentById.get(id) ?? null
parentById(list, id) ==
    IF \E i \in 1..Len(list) : list[i].id = id
    THEN list[CHOOSE i \in 1..Len(list) :
                 /\ list[i].id = id
                 /\ \A j \in (i + 1)..Len(list) : list[j].id # id].parentObservationId
    ELSE NoId

\* a reconciliation that drops a removed parent without climbing
DropRemovedParent(list, keptIds, parentId, visited) ==
    IF parentId \in keptIds THEN parentId ELSE NoId

\* the while loop that climbs to the nearest kept ancestor
RECURSIVE NearestKeptAncestor(_, _, _, _)
NearestKeptAncestor(list, keptIds, parentId, visited) ==
    IF parentId = NoId \/ parentId \in keptIds THEN parentId
    ELSE IF parentId \in visited THEN NoId
    ELSE NearestKeptAncestor(list, keptIds, parentById(list, parentId),
                             visited \cup {parentId})

\* the ids the same loop holds in visited when it stops
RECURSIVE AncestorWalkVisited(_, _, _, _)
AncestorWalkVisited(list, keptIds, parentId, visited) ==
    IF parentId = NoId \/ parentId \in keptIds THEN visited
    ELSE IF parentId \in visited THEN visited
    ELSE AncestorWalkVisited(list, keptIds, parentById(list, parentId),
                             visited \cup {parentId})

\* mutableList.forEach: every kept observation is handed its nearest kept ancestor
ReparentToKept(list, kept) ==
    LET keptIds == { list[i].id : i \in kept } IN
    [i \in 1..Len(list) |->
        IF i \in kept
        THEN [list[i] EXCEPT !.parentObservationId =
                 NearestKeptAncestor(list, keptIds, @, {})]
        ELSE list[i]]

\* [...mutableList].sort by startTime, as positions in list
chronological(list, kept) ==
    LET ks == SelectSeq([i \in 1..Len(list) |-> i], LAMBDA i : i \in kept) IN
    SortByKeys(ks, [p \in 1..Len(ks) |-> list[ks[p]].startTime])

\* sessionTurns of the tree builder: matched on the raw observation name
treeSessionTurns(list, chrono) ==
    LET t == SelectSeq(chrono, LAMBDA i : IsSessionTurnName(list[i].name)) IN
    [p \in 1..Len(t) |-> [id |-> list[t[p]].id, start |-> list[t[p]].startTime,
                          end |-> list[t[p]].endTime]]

\* TOOL_PRE_UI_NODE_RE: ^parser\.pre_(?<toolName>[^.]+)\.(?<index>\d+)$
ToolPreUiMatch(n) ==
    Len(n) = 3 /\ n[1] = "parser" /\ n[2] \in PreSegs /\ n[3] \in DigitSegs

\* the same loop as it would be without the tool-result rule
RECURSIVE ApplyUiParentsNoToolResult(_, _, _, _, _)
ApplyUiParentsNoToolResult(chrono, p, turns, bounds, st) ==
    IF p > Len(chrono) THEN st.list
    ELSE
    LET i == chrono[p]
        obs == st.list[i]
        uiName == getUiNodeName(obs.name)
        idx == AdvanceTurn(st.idx, obs.startTime, bounds)
        p1 == IF /\ idx <= Len(turns)
                 /\ obs.id # turns[idx].id
                 /\ obs.startTime >= turns[idx].start
                 /\ obs.startTime < bounds[idx]
                 /\ obs.parentObservationId = NoId
              THEN turns[idx].id
              ELSE obs.parentObservationId
        pre == IF ToolPreUiMatch(uiName)
               THEN MapSet(st.pre, <<PreTool(uiName[2]), uiName[3]>>, obs.id)
               ELSE st.pre
        p3 == IF /\ obs.type = "TOOL"
                 /\ MapHas(pre, uiName)
                 /\ MapGet(pre, uiName) # obs.id
              THEN MapGet(pre, uiName)
              ELSE p1
    IN ApplyUiParentsNoToolResult(chrono, p + 1, turns, bounds,
           [list |-> [st.list EXCEPT ![i].parentObservationId = p3],
            byName |-> st.byName, pre |-> pre, idx |-> idx])

\* the loop over chronological that applies the three UI re-parenting rules
RECURSIVE ApplyUiParents(_, _, _, _, _)
ApplyUiParents(chrono, p, turns, bounds, st) ==
    IF p > Len(chrono) THEN st.list
    ELSE
    LET i == chrono[p]
        obs == st.list[i]
        uiName == getUiNodeName(obs.name)
        idx == AdvanceTurn(st.idx, obs.startTime, bounds)
        p1 == IF /\ idx <= Len(turns)
                 /\ obs.id # turns[idx].id
                 /\ obs.startTime >= turns[idx].start
                 /\ obs.startTime < bounds[idx]
                 /\ obs.parentObservationId = NoId
              THEN turns[idx].id
              ELSE obs.parentObservationId
        target == <<uiName[2], uiName[3]>>
        p2 == IF /\ ToolResultUiMatch(uiName)
                 /\ MapHas(st.byName, target)
                 /\ MapGet(st.byName, target) # obs.id
              THEN MapGet(st.byName, target)
              ELSE p1
        pre == IF ToolPreUiMatch(uiName)
               THEN MapSet(st.pre, <<PreTool(uiName[2]), uiName[3]>>, obs.id)
               ELSE st.pre
        p3 == IF /\ obs.type = "TOOL"
                 /\ MapHas(pre, uiName)
                 /\ MapGet(pre, uiName) # obs.id
              THEN MapGet(pre, uiName)
              ELSE p2
        byName == IF obs.name # Null THEN MapSet(st.byName, obs.name, obs.id)
                  ELSE st.byName
    IN ApplyUiParents(chrono, p + 1, turns, bounds,
           [list |-> [st.list EXCEPT ![i].parentObservationId = p3],
            byName |-> byName, pre |-> pre, idx |-> idx])

\* filterAndPrepareObservations: [list, the collection as the call leaves it;
\* sortedObservations; hiddenObservationsCount]
filterAndPrepareObservations(list, minLevel) ==
    IF Len(list) = 0
    THEN [list |-> list, sortedObservations |-> <<>>, hiddenObservationsCount |-> 0]
    ELSE
    LET kept == KeptPositions(list, minLevel)
        walked == ReparentToKept(list, kept)
        chrono == chronological(walked, kept)
        turns == treeSessionTurns(walked, chrono)
        bounds == sessionTurnEndBounds(turns)
        final == ApplyUiParents(chrono, 1, turns, bounds,
                     [list |-> walked, byName |-> <<>>, pre |-> <<>>, idx |-> 1])
    IN [list |-> final,
        sortedObservations |-> [p \in 1..Len(chrono) |-> final[chrono[p]]],
        hiddenObservationsCount |->
            Cardinality(WithoutParserContainers(list)) - Cardinality(kept)]

\* nodeRegistry keys in insertion order
RegistryIds(sorted) == [p \in 1..Len(sorted) |-> sorted[p].id]

\* ProcessingNode.childrenIds of the node id, after the second pass
childrenIds(sorted, id) ==
    LET ch == SelectSeq(sorted, LAMBDA o :
                  o.parentObservationId # NoId /\ o.parentObservationId = id)
    IN [p \in 1..Len(ch) |-> ch[p].id]

\* rootIds of buildDependencyGraph: the nodes without a parent
dependencyRootIds(sorted) ==
    LET r == SelectSeq(sorted, LAMBDA o : o.parentObservationId = NoId)
    IN [p \in 1..Len(r) |-> r[p].id]

\* the breadth-first pass that hands every child the depth of its parent plus one
RECURSIVE PropagateDepth(_, _, _, _)
PropagateDepth(sorted, queue, queueIndex, depth) ==
    IF queueIndex > Len(queue) THEN depth
    ELSE LET currentId == queue[queueIndex]
             ch == childrenIds(sorted, currentId)
         IN PropagateDepth(sorted, queue \o ch, queueIndex + 1,
                [id \in DOMAIN depth |->
                    IF id \in SeqToSet(ch) THEN depth[currentId] + 1 ELSE depth[id]])

\* a pass that pushes every child twice
RECURSIVE DepthPassPushesTwice(_, _, _)
DepthPassPushesTwice(sorted, queue, queueIndex) ==
    IF queueIndex > Len(queue) THEN queue
    ELSE DepthPassPushesTwice(sorted,
             queue \o childrenIds(sorted, queue[queueIndex])
                   \o childrenIds(sorted, queue[queueIndex]),
             queueIndex + 1)

\* the queue of the same pass when it is drained
RECURSIVE DepthPassQueue(_, _, _)
DepthPassQueue(sorted, queue, queueIndex) ==
    IF queueIndex > Len(queue) THEN queue
    ELSE DepthPassQueue(sorted, queue \o childrenIds(sorted, queue[queueIndex]),
                        queueIndex + 1)

\* a seed that takes every node of the registry for a leaf
EveryIdIsLeaf(sorted) ==
    RegistryIds(sorted)

\* leafIds: the nodes without children, in registry order
leafIds(sorted) ==
    SelectSeq(RegistryIds(sorted), LAMBDA id : Len(childrenIds(sorted, id)) = 0)

\* buildDependencyGraph: [depth, inDegree, leafIds]
buildDependencyGraph(sorted) ==
    LET ids == SeqToSet(RegistryIds(sorted)) IN
    [depth |-> PropagateDepth(sorted, dependencyRootIds(sorted), 1, [id \in ids |-> 0]),
     inDegree |-> [id \in ids |-> Len(childrenIds(sorted, id))],
     leafIds |-> leafIds(sorted)]

\* an own cost that falls back on input + output when totalCost is zero as well
NodeCostFallsBackOnZero(obs) ==
    IF obs.totalCost # NoCost /\ obs.totalCost # 0 THEN obs.totalCost
    ELSE IF obs.inputCost # NoCost \/ obs.outputCost # NoCost
    THEN LET inputCost == IF obs.inputCost # NoCost THEN obs.inputCost ELSE 0
             outputCost == IF obs.outputCost # NoCost THEN obs.outputCost ELSE 0
         IN IF inputCost + outputCost # 0 THEN inputCost + outputCost ELSE NoCost
    ELSE NoCost

\* nodeCost: totalCost when present (kept when non-zero), else input + output
nodeCost(obs) ==
    IF obs.totalCost # NoCost
    THEN (IF obs.totalCost # 0 THEN obs.totalCost ELSE NoCost)
    ELSE IF obs.inputCost # NoCost \/ obs.outputCost # NoCost
    THEN LET inputCost == IF obs.inputCost # NoCost THEN obs.inputCost ELSE 0
             outputCost == IF obs.outputCost # NoCost THEN obs.outputCost ELSE 0
         IN IF inputCost + outputCost # 0 THEN inputCost + outputCost ELSE NoCost
    ELSE NoCost

\* the reduce over the totalCost of child tree nodes
RECURSIVE SumTotalCost(_, _, _, _)
SumTotalCost(nodeMap, ch, p, acc) ==
    IF p > Len(ch) THEN acc
    ELSE LET c == MapGet(nodeMap, ch[p]).totalCost IN
         SumTotalCost(nodeMap, ch, p + 1,
             IF c = NoCost THEN acc
             ELSE IF acc # NoCost THEN acc + c ELSE c)

\* a version that lets the children's costs stand for the whole node
TotalCostChildrenOnly(own, childrenTotalCost) ==
    IF childrenTotalCost # NoCost THEN childrenTotalCost ELSE own

\* totalCost = nodeCost && childrenTotalCost ? sum : nodeCost || childrenTotalCost
totalCostOf(own, childrenTotalCost) ==
    IF own # NoCost /\ childrenTotalCost # NoCost THEN own + childrenTotalCost
    ELSE IF own # NoCost THEN own
    ELSE childrenTotalCost

RECURSIVE MaxChildrenDepth(_, _, _, _)
MaxChildrenDepth(nodeMap, ch, p, acc) ==
    IF p > Len(ch) THEN acc
    ELSE LET d == MapGet(nodeMap, ch[p]).childrenDepth IN
         MaxChildrenDepth(nodeMap, ch, p + 1, IF d > acc THEN d ELSE acc)

\* the TreeNode created for obs once its processed children are known
TreeNodeOf(obs, depth, childTreeNodes, nodeMap) ==
    [id |-> obs.id,
     type |-> obs.type,
     name |-> getUiNodeName(obs.name),
     startTime |-> obs.startTime,
     parentObservationId |-> obs.parentObservationId,
     children |-> childTreeNodes,
     totalCost |-> totalCostOf(nodeCost(obs),
                       SumTotalCost(nodeMap, childTreeNodes, 1, NoCost)),
     depth |-> depth,
     childrenDepth |-> IF Len(childTreeNodes) > 0
                       THEN MaxChildrenDepth(nodeMap, childTreeNodes, 1, 0) + 1
                       ELSE 0]

ObsOf(sorted, id) == sorted[CHOOSE p \in 1..Len(sorted) : sorted[p].id = id]

\* the work queue of buildTreeNodesBottomUp; st is [queue, inDegree, nodeMap, rootIds]
RECURSIVE ProcessQueue(_, _, _, _)
ProcessQueue(sorted, depth, queueIndex, st) ==
    IF queueIndex > Len(st.queue) THEN st
    ELSE
    LET currentId == st.queue[queueIndex]
        obs == ObsOf(sorted, currentId)
        childTreeNodes == SelectSeq(childrenIds(sorted, currentId),
                              LAMBDA c : MapHas(st.nodeMap, c))
        treeNode == TreeNodeOf(obs, depth[currentId], childTreeNodes, st.nodeMap)
        parent == obs.parentObservationId
        known == parent # NoId /\ parent \in DOMAIN st.inDegree
        inDegree == IF known THEN [st.inDegree EXCEPT ![parent] = @ - 1]
                    ELSE st.inDegree
    IN ProcessQueue(sorted, depth, queueIndex + 1,
           [queue |-> IF known /\ inDegree[parent] = 0
                      THEN Append(st.queue, parent) ELSE st.queue,
            inDegree |-> inDegree,
            nodeMap |-> MapSet(st.nodeMap, currentId, treeNode),
            rootIds |-> IF parent = NoId THEN Append(st.rootIds, currentId)
                        ELSE st.rootIds])

\* buildTreeNodesBottomUp: [queue, inDegree, nodeMap, rootIds] when the queue is drained
buildTreeNodesBottomUp(sorted, graph) ==
    ProcessQueue(sorted, graph.depth, 1,
        [queue |-> graph.leafIds, inDegree |-> graph.inDegree,
         nodeMap |-> <<>>, rootIds |-> <<>>])

Reverse(s) == [i \in 1..Len(s) |-> s[Len(s) + 1 - i]]

\* a TRACE node that carries no cost of its own
TraceNodeWithoutCost(nodeMap, rootTreeNodes) ==
    [id |-> TraceNodeId,
     type |-> "TRACE",
     name |-> <<"">>,
     startTime |-> 0,
     parentObservationId |-> NoId,
     children |-> rootTreeNodes,
     totalCost |-> NoCost,
     depth |-> -1,
     childrenDepth |-> IF Len(rootTreeNodes) > 0
                       THEN MaxChildrenDepth(nodeMap, rootTreeNodes, 1, 0) + 1
                       ELSE 0]

\* the synthetic TRACE node that wraps the roots
TraceNode(nodeMap, rootTreeNodes) ==
    [id |-> TraceNodeId,
     type |-> "TRACE",
     name |-> <<"">>,
     startTime |-> 0,
     parentObservationId |-> NoId,
     children |-> rootTreeNodes,
     totalCost |-> SumTotalCost(nodeMap, rootTreeNodes, 1, NoCost),
     depth |-> -1,
     childrenDepth |-> IF Len(rootTreeNodes) > 0
                       THEN MaxChildrenDepth(nodeMap, rootTreeNodes, 1, 0) + 1
                       ELSE 0]

\* rootTreeNodes.sort by startTime
sortedRootTreeNodes(nodeMap, rootIds) ==
    SortByKeys(rootIds, [p \in 1..Len(rootIds) |-> MapGet(nodeMap, rootIds[p]).startTime])

\* the last phase of buildTraceTree: the roots as they are, or under one TRACE node
wrapRoots(rootObservationType, hidden, nodeMap, rootTreeNodes) ==
    IF rootObservationType
    THEN [roots |-> rootTreeNodes, hiddenObservationsCount |-> hidden, nodeMap |-> nodeMap]
    ELSE [roots |-> <<TraceNodeId>>,
          hiddenObservationsCount |-> hidden,
          nodeMap |-> MapSet(nodeMap, TraceNodeId, TraceNode(nodeMap, rootTreeNodes))]

\* phases 2 to 4 of buildTraceTree
treeOfSorted(rootObservationType, hidden, built) ==
    wrapRoots(rootObservationType, hidden, built.nodeMap,
        sortedRootTreeNodes(built.nodeMap,
            SelectSeq(built.rootIds, LAMBDA id : MapHas(built.nodeMap, id))))

\* buildTraceTree after phase 1; prep is the result of filterAndPrepareObservations
treeOfPrepared(rootObservationType, prep) ==
    IF Len(prep.sortedObservations) = 0
    THEN wrapRoots(rootObservationType, prep.hiddenObservationsCount, <<>>, <<>>)
    ELSE treeOfSorted(rootObservationType, prep.hiddenObservationsCount,
             buildTreeNodesBottomUp(prep.sortedObservations,
                 buildDependencyGraph(prep.sortedObservations)))

\* buildTraceTree: [roots, hiddenObservationsCount, nodeMap]; roots holds ids
buildTraceTree(rootObservationType, observations, minLevel) ==
    treeOfPrepared(rootObservationType,
        filterAndPrepareObservations(observations, minLevel))

\* the explicit stack that lists the tree in pre-order
RECURSIVE FlattenToSearchItems(_, _, _)
FlattenToSearchItems(nodeMap, stack, searchItems) ==
    IF Len(stack) = 0 THEN searchItems
    ELSE LET node == MapGet(nodeMap, stack[Len(stack)]) IN
         FlattenToSearchItems(nodeMap,
             SubSeq(stack, 1, Len(stack) - 1) \o Reverse(node.children),
             Append(searchItems, node.id))

\* the second half of buildTraceUiData: the tree with its searchItems
withSearchItems(tree) ==
    [roots |-> tree.roots,
     hiddenObservationsCount |-> tree.hiddenObservationsCount,
     searchItems |-> IF Len(tree.roots) = 0 THEN <<>>
                     ELSE FlattenToSearchItems(tree.nodeMap, Reverse(tree.roots), <<>>),
     nodeMap |-> tree.nodeMap]

\* buildTraceUiData: [roots, hiddenObservationsCount, searchItems, nodeMap]
buildTraceUiData(rootObservationType, observations, minLevel) ==
    withSearchItems(buildTraceTree(rootObservationType, observations, minLevel))

\* the collection as a call of buildTraceUiData leaves it
ObservationsAfterBuild(observations, minLevel) ==
    filterAndPrepareObservations(observations, minLevel).list

----------------------------------------------------------------------------
(* The tree builder called, once or twice, on a collection of observations *)

MaxTreeObs == 4

TObs(id, name, parent, start, level, type, total, input, output) ==
    [id |-> id, name |-> name, parentObservationId |-> parent, startTime |-> start,
     endTime |-> start + 1, level |-> level, type |-> type, totalCost |-> total, inputCost |-> input,
     outputCost |-> output]

RAW_PRE == <<"session", "parser", "turn_001", "pre_web", "3">>

\* the observations a collection is drawn from (ids are unique)
TreeCandidates ==
    { TObs(1, <<"session">>, NoId, 0, "DEFAULT", "SPAN", NoCost, 0, NoCost),
      TObs(2, TURN1, 1, 0, "DEFAULT", "CHAIN", 0, 2, 1),
      TObs(3, RAW_CALLS, 4, 1, "DEFAULT", "SPAN", 4, NoCost, NoCost),
      TObs(4, <<"step">>, 1, 1, "DEBUG", "SPAN", 5, 1, 1),
      TObs(5, TOOL_WEB, 3, 2, "DEFAULT", "TOOL", NoCost, 2, 3),
      TObs(6, RAW_RESULT, 2, 3, "ERROR", "SPAN", 1, NoCost, NoCost),
      TObs(7, RAW_PRE, 2, 1, "WARNING", "SPAN", NoCost, 4, NoCost),
      TObs(8, TOOL_WEB, 8, 2, "DEFAULT", "SPAN", NoCost, NoCost, NoCost),
      TObs(9, TURN2, NoId, 2, "DEFAULT", "CHAIN", 3, NoCost, NoCost) }

TreeMinLevels == {NoLevel, "DEFAULT", "ERROR"}

TreeIdle == [roots |-> <<>>, hiddenObservationsCount |-> 0,
             searchItems |-> <<>>, nodeMap |-> <<>>]

\* the caller adds one more observation to the collection it will pass
AddTreeObservation ==
    /\ tPc = "collect"
    /\ Len(tData) < MaxTreeObs
    /\ \E o \in TreeCandidates :
          /\ \A i \in 1..Len(tData) : tData[i].id # o.id
          /\ tData' = Append(tData, o)
          /\ tInput' = Append(tInput, o)
    /\ UNCHANGED <<tCalls, tOut, tPc>>
    /\ UNCHANGED <<normVars, graphVars>>

\* buildTraceUiData(trace, tData, minLevel), a first and a second time for the
\* same trace
BuildTree ==
    /\ tPc \in {"collect", "built"}
    /\ \E minLevel \in TreeMinLevels,
          rootObservationType \in (IF tPc = "collect" THEN BOOLEAN
                                   ELSE {tCalls[Len(tCalls)].rootObservationType}) :
          /\ tOut' = buildTraceUiData(rootObservationType, tData, minLevel)
          /\ tData' = ObservationsAfterBuild(tData, minLevel)
          /\ tCalls' = Append(tCalls, [minLevel |-> minLevel,
                                       rootObservationType |-> rootObservationType])
    /\ tPc' = IF tPc = "collect" THEN "built" ELSE "rebuilt"
    /\ UNCHANGED tInput
    /\ UNCHANGED <<normVars, graphVars>>

----------------------------------------------------------------------------
(* Specifications: one per component, the other two at rest *)

NormInit ==
    /\ normIn \in NormSeeds
    /\ normOut = NormIdle
    /\ normPads = 0
    /\ normPc = "edit"
    /\ gData = <<>> /\ gOut = GraphIdle /\ gPc = "idle"
    /\ tData = <<>> /\ tInput = <<>> /\ tCalls = <<>> /\ tOut = TreeIdle /\ tPc = "idle"

GraphInit ==
    /\ gData = <<>>
    /\ gOut = GraphIdle
    /\ gPc = "collect"
    /\ normIn = Null /\ normOut = NormIdle /\ normPads = 0 /\ normPc = "idle"
    /\ tData = <<>> /\ tInput = <<>> /\ tCalls = <<>> /\ tOut = TreeIdle /\ tPc = "idle"

TreeInit ==
    /\ tData = <<>>
    /\ tInput = <<>>
    /\ tCalls = <<>>
    /\ tOut = TreeIdle
    /\ tPc = "collect"
    /\ normIn = Null /\ normOut = NormIdle /\ normPads = 0 /\ normPc = "idle"
    /\ gData = <<>> /\ gOut = GraphIdle /\ gPc = "idle"

NextNorm == PrependSegment \/ AppendSegment \/ Normalize
SpecNorm == NormInit /\ [][NextNorm]_vars

NextGraph == AddGraphObservation \/ BuildGraph
SpecGraph == GraphInit /\ [][NextGraph]_vars

NextTree == AddTreeObservation \/ BuildTree
SpecTree == TreeInit /\ [][NextTree]_vars

Init == NormInit \/ GraphInit \/ TreeInit
Next == NextNorm \/ NextGraph \/ NextTree
Spec == Init /\ [][Next]_vars

\* the two builders side by side, the tree builder up to its first call
BuildersInit == GraphInit \/ TreeInit
BuildTreeFirst == tPc = "collect" /\ BuildTree
NextBuilders == NextGraph \/ AddTreeObservation \/ BuildTreeFirst
SpecBuilders == BuildersInit /\ [][NextBuilders]_vars

----------------------------------------------------------------------------
(* Properties of the graph builder and of the normalizer *)

GraphBuilt == gPc = "built"
NodeIds == { gOut.nodes[i].id : i \in 1..Len(gOut.nodes) }
EdgesIntoEnd == { e \in gOut.edges : e[2] = LANGFUSE_END_NODE_NAME }
UsedTurnPath == Len(GraphTurns(gData)) > 0
RawName(i) == getEffectiveRawNodeName(gData, gData[i])

GraphExists == MapKeySet(gOut.nodeToObservationsMap)
GraphChrono == obsChrono(gData, getRedundantParserNodes(StepToNodes(gData)))

\* what the turn-chain path computes on the way to its edges
TurnPathChains(chrono, turns, scan, exists) ==
    [chrono |-> chrono, turns |-> turns, byTurn |-> scan.byTurn,
     kernelByTurn |-> scan.kernelByTurn,
     chains |-> turnChains(turns, scan.byTurn), exists |-> exists]
TurnPathScan(chrono, turns, exists) ==
    TurnPathChains(chrono, turns,
        TurnScan(chrono, 1, turns, sessionTurnEndBounds(turns), exists,
                 [byTurn |-> InitByTurn(turns, 1, <<>>), kernelByTurn |-> <<>>, idx |-> 1]),
        exists)
TurnPathView(chrono, exists) == TurnPathScan(chrono, sessionTurns(chrono), exists)
GraphView == TurnPathView(GraphChrono, GraphExists)

BuiltStepNodes ==
    NormalizedStepNodes({ x \in StepToNodes(gData) :
        x[2] \notin getRedundantParserNodes(StepToNodes(gData)) })

\* the step of x is the last occupied step, or the end node sits at the next one
BeforeEnd(x) ==
    \/ \A z \in BuiltStepNodes : z[1] <= x[1]
    \/ \E z \in BuiltStepNodes :
          /\ z[2] = LANGFUSE_END_NODE_NAME
          /\ z[1] > x[1]
          /\ \A y \in BuiltStepNodes : y[1] > x[1] => z[1] <= y[1]

IsGraphContainerName(n) ==
    LET parsed == parseParserNodeName(n) IN
    /\ parsed # Null
    /\ \/ parsed.suffixSegments = <<>>
       \/ /\ Len(parsed.suffixSegments) = 1
          /\ parsed.suffixSegments[1] \in {"tool_calls", "tool_results", "tool_call", "tool_result"}

\* C7 as claimed: no graph node and no nodeToObservationsMap key is a
\* parser-container name as the Normalizer classifies it
C7_NoNormalizerContainerEmitted ==
    GraphBuilt =>
        \A n \in NodeIds \cup MapKeySet(gOut.nodeToObservationsMap) :
            ~isParserContainerNodeName(n)

\* C7 amended: a graph node or map key is a parser name without suffix or with the
\* single suffix tool_calls, tool_results, tool_call or tool_result only when a raw
\* label that normalizes to it is carried by no observation that has a step
C7_SteppedContainersPruned ==
    GraphBuilt =>
        \A n \in NodeIds \cup MapKeySet(gOut.nodeToObservationsMap) :
            IsGraphContainerName(n) =>
                \E i \in 1..Len(gData) :
                    /\ RawName(i) # Null
                    /\ Normalized(RawName(i)) = n
                    /\ \A j \in 1..Len(gData) :
                          RawName(j) = RawName(i) => gData[j].step = NoStep

\* a build whose input holds a container label on an observation with a step,
\* and whose output has no node and no key for it
C7_Witness ==
    /\ GraphBuilt
    /\ \E i \in 1..Len(gData) :
          /\ gData[i].step # NoStep
          /\ RawName(i) # Null
          /\ IsGraphContainerName(RawName(i))
          /\ Normalized(RawName(i)) \notin
                 NodeIds \cup MapKeySet(gOut.nodeToObservationsMap)

\* the chain of the chronologically last turn, as the turn-chain path builds it
LastChainOf(v) == v.chains[Len(v.chains)].chain
LastTurnChain == LastChainOf(GraphView)

EndEdgeLeavesLastChain(v, edgesIntoEnd) ==
    /\ Len(v.turns) > 0
    /\ edgesIntoEnd = {<<Last(LastChainOf(v)), LANGFUSE_END_NODE_NAME>>}

FailureBefore(i, j) ==
    \/ gData[i].startTime < gData[j].startTime
    \/ gData[i].startTime = gData[j].startTime /\ gData[i].id < gData[j].id
FailureIdx == { i \in 1..Len(gData) : gData[i].name = FAILURE_NAME }
FailureNodeOf(i) ==
    <<"session", "failure",
      NumStr[1 + Cardinality({ j \in FailureIdx : FailureBefore(j, i) })]>>

\* C9: every observation named session.failure is mapped to the graph node
\* session.failure.k, k its rank by startTime then id, whatever node label it
\* carries, and to no other node; N failures give N failure nodes
C9_FailuresNumbered ==
    (GraphBuilt /\ Len(gData) > 0) =>
        /\ \A i \in FailureIdx :
              /\ FailureNodeOf(i) \in NodeIds
              /\ \A e \in SeqToSet(gOut.nodeToObservationsMap) :
                    gData[i].id \in SeqToSet(e.v) <=> e.k = FailureNodeOf(i)
        /\ Cardinality({ FailureNodeOf(i) : i \in FailureIdx }) = Cardinality(FailureIdx)

\* a build with two failures that start together, the later id first in the
\* input and carrying the label of a turn node
C9_Witness ==
    /\ GraphBuilt
    /\ \E i, j \in FailureIdx :
          /\ i < j /\ gData[i].id > gData[j].id
          /\ gData[i].startTime = gData[j].startTime
          /\ gData[j].node # Null
          /\ FailureNodeOf(j) = <<"session", "failure", "1">>
          /\ FailureNodeOf(j) \in NodeIds

\* C10: normalizeParserNodeNameForGraph is idempotent
C10_NormalizeIdempotent ==
    normPc = "done" => normOut.twice = normOut.once

\* the normalizer rewrote its input, and a second pass left the result alone
C10_Witness ==
    /\ normPc = "done"
    /\ normOut.once # normIn
    /\ normOut.twice = normOut.once
    /\ normPads > 0

----------------------------------------------------------------------------
(* Properties of the tree builder and of both builders together *)

TreeBuilt == tPc \in {"built", "rebuilt"}
LastCall == tCalls[Len(tCalls)]
TreeNodeIds == MapKeySet(tOut.nodeMap)
TreeNodeAt(id) == MapGet(tOut.nodeMap, id)

\* following parentObservationId from id leaves the collection within fuel steps
RECURSIVE ReachesTop(_, _, _)
ReachesTop(list, id, fuel) ==
    IF id = NoId \/ ~(\E i \in 1..Len(list) : list[i].id = id) THEN TRUE
    ELSE IF fuel = 0 THEN FALSE
    ELSE ReachesTop(list, parentById(list, id), fuel - 1)

\* the parent references of the collection hold no cycle
ParentsAcyclic(list) ==
    \A i \in 1..Len(list) : ReachesTop(list, list[i].id, Len(list))

\* C3 as claimed, already for collections whose parent references hold no cycle:
\* after a build of an untouched collection, every observation that is not a
\* parser container and is at or above minLevel is in nodeMap exactly once
C3_SurvivorsInNodeMap ==
    (tPc = "built" /\ ParentsAcyclic(tInput)) =>
        \A i \in KeptPositions(tInput, LastCall.minLevel) :
            Cardinality({ p \in 1..Len(tOut.nodeMap) :
                            tOut.nodeMap[p].k = tInput[i].id }) = 1

\* the own cost of a node of the returned tree, absent counted as zero
OwnCostValue(id) ==
    IF id = TraceNodeId THEN 0
    ELSE LET c == nodeCost(ObsOf(tData, id)) IN IF c = NoCost THEN 0 ELSE c

RECURSIVE SumOwnCost(_)
SumOwnCost(ids) ==
    IF ids = {} THEN 0
    ELSE LET x == CHOOSE y \in ids : TRUE IN OwnCostValue(x) + SumOwnCost(ids \ {x})

\* the nodes below id in the returned tree
RECURSIVE DescendantsOf(_)
DescendantsOf(id) ==
    LET ch == SeqToSet(TreeNodeAt(id).children) IN
    ch \cup UNION { DescendantsOf(c) : c \in ch }

\* C4: the totalCost of every node of the tree is its own cost plus the sum of the
\* own costs of all its descendants, absent costs counting zero; the totalCost of
\* a leaf is its own cost
C4_CostConservation ==
    TreeBuilt =>
        \A id \in TreeNodeIds :
            LET n == TreeNodeAt(id) IN
            /\ (IF n.totalCost = NoCost THEN 0 ELSE n.totalCost) =
                   OwnCostValue(id) + SumOwnCost(DescendantsOf(id))
            /\ (id # TraceNodeId /\ Len(n.children) = 0) =>
                   n.totalCost = nodeCost(ObsOf(tData, id))

\* a tree three levels deep in which a node, its child and its grandchild all
\* carry a cost of their own
C4_Witness ==
    /\ TreeBuilt
    /\ \E id \in TreeNodeIds \ {TraceNodeId} :
          /\ nodeCost(ObsOf(tData, id)) # NoCost
          /\ \E c \in SeqToSet(TreeNodeAt(id).children) :
                /\ nodeCost(ObsOf(tData, c)) # NoCost
                /\ \E g \in SeqToSet(TreeNodeAt(c).children) :
                      nodeCost(ObsOf(tData, g)) # NoCost
          /\ TreeNodeAt(id).totalCost = OwnCostValue(id) + SumOwnCost(DescendantsOf(id))

\* the bijections of 1..n
Orderings(n) ==
    { f \in [1..n -> 1..n] : \A i, j \in 1..n : f[i] = f[j] => i = j }

\* C5 as claimed, for the graph builder: every ordering of the collection gives
\* the same set of nodes, with the same type and level, and the same set of edges
C5_GraphIndependentOfOrder ==
    GraphBuilt =>
        \A f \in Orderings(Len(gData)) :
            LET g == buildGraphFromStepData([i \in 1..Len(gData) |-> gData[f[i]]]) IN
            /\ SeqToSet(g.nodes) = SeqToSet(gOut.nodes)
            /\ g.edges = gOut.edges

\* C6 as claimed, for the tree builder: a build leaves the collection as it was,
\* and a second build returns what a build of the untouched collection with the
\* second minLevel returns
C6_BuildLeavesInputUnchanged ==
    /\ TreeBuilt => tData = tInput
    /\ tPc = "rebuilt" =>
           tOut = buildTraceUiData(LastCall.rootObservationType, tInput,
                                   LastCall.minLevel)

----------------------------------------------------------------------------
(* Properties settled after the first ten *)

NormDone == normPc = "done"

\* the rewriting as claimed: session. dropped in front of parser., then the
\* tool_result, tool_call and pre_ forms compacted, with or without session.
ClaimedCompactForm(n) ==
    IF n = Null THEN n
    ELSE LET b == IF /\ Len(n) >= 3 /\ n[1] = "session" /\ n[2] = "parser"
                     /\ SubSeq(n, 3, Len(n)) # <<"">>
                  THEN Tail(n) ELSE n IN
         IF /\ Len(b) = 5 /\ b[1] = "parser" /\ b[2] \in TurnSegs
            /\ b[3] \in {"tool_result", "tool_call"}
            /\ b[4] # "" /\ b[5] \in DigitSegs
         THEN <<"parser", b[4], b[5]>>
         ELSE IF /\ Len(b) = 4 /\ b[1] = "parser" /\ b[2] \in TurnSegs
                 /\ b[3] \in PreSegs /\ b[4] \in DigitSegs
         THEN <<"parser", b[3], b[4]>>
         ELSE b

\* C11 as claimed: the tool_result, tool_call and pre_ forms are compacted with
\* or without the session. prefix, every other input is returned unchanged
C11_CompactsAllVariants ==
    NormDone => normOut.once = ClaimedCompactForm(normIn)

\* C11 amended: null, "" and every name that is not session.parser.<rest> with a
\* non-empty rest are returned unchanged; session.parser.turn_<n>.pre_<tool>.<i>
\* becomes parser.pre_<tool>.<i>, session.parser.turn_<n>.tool_result.<tool>.<i>
\* becomes parser.<tool>.<i>, and every other session.parser.<rest>, the
\* tool_call form included, only loses session.
C11_RewritesSessionParserNames ==
    NormDone =>
        LET n == normIn
            r == normOut.once
        IN IF n = Null \/ n = <<"">> THEN r = n
           ELSE IF ~(/\ Len(n) >= 3 /\ n[1] = "session" /\ n[2] = "parser"
                     /\ SubSeq(n, 3, Len(n)) # <<"">>)
           THEN r = n
           ELSE IF /\ Len(n) = 5 /\ n[3] \in TurnSegs /\ n[4] \in PreSegs
                   /\ n[5] \in DigitSegs
           THEN r = <<"parser", n[4], n[5]>>
           ELSE IF /\ Len(n) = 6 /\ n[3] \in TurnSegs /\ n[4] = "tool_result"
                   /\ n[5] # "" /\ n[6] \in DigitSegs
           THEN r = <<"parser", n[5], n[6]>>
           ELSE r = Tail(n)

\* the normalizer was handed the tool_call form under session. and only
\* dropped session.
C11_Witness ==
    /\ NormDone
    /\ normIn = <<"session", "parser", "turn_002", "tool_call", "web", "4">>
    /\ normOut.once = <<"parser", "turn_002", "tool_call", "web", "4">>

\* the name without session., when it has the form parser.turn_<digits>[.suffix]
ParserFormBody(n) ==
    LET b == IF n # Null /\ n[1] = "session" THEN Tail(n) ELSE n IN
    IF /\ Len(b) >= 2 /\ b[1] = "parser" /\ b[2] \in TurnSegs
       /\ (Len(b) = 2 \/ SubSeq(b, 3, Len(b)) # <<"">>)
    THEN b ELSE Null

\* C12 as claimed: a descriptor exactly for [session.]parser.turn_<digits>[.suffix],
\* with the turn as an integer and suffixSegments the suffix split on "."
C12_SuffixIsPlainSplit ==
    NormDone =>
        LET b == ParserFormBody(normIn) IN
        IF b = Null THEN normOut.parsed = Null
        ELSE normOut.parsed =
                 [turn |-> TurnValue(b[2]), suffixSegments |-> SubSeq(b, 3, Len(b))]

\* C12 amended: as claimed, except that suffixSegments holds the non-empty
\* pieces of the suffix split on ".", in order
C12_SuffixIsNonEmptyPieces ==
    NormDone =>
        LET b == ParserFormBody(normIn) IN
        IF b = Null THEN normOut.parsed = Null
        ELSE normOut.parsed =
                 [turn |-> TurnValue(b[2]),
                  suffixSegments |-> SelectSeq(SubSeq(b, 3, Len(b)), LAMBDA x : x # "")]

\* a parser name whose suffix holds an empty piece was parsed
C12_Witness ==
    /\ NormDone
    /\ normOut.parsed # Null
    /\ \E i \in 3..Len(normIn) : normIn[i] = "" /\ normIn[i - 1] \in TurnSegs \cup {"tool_result"}
    /\ Len(normOut.parsed.suffixSegments) >= 1

(***************************************************************************)
(* Turn windows                                                            *)
(***************************************************************************)
\* turn i's window: from its own start up to the next turn's start
InTurnWindow(turns, i, t) ==
    /\ turns[i].start <= t
    /\ i < Len(turns) => t < turns[i + 1].start

\* the graph's chain of turn i holds the turn node and the existing non-parser
\* nodes with an observation that starts in a window of a turn of that name
GraphChainsFollowWindows(data, exists) ==
    LET chrono == obsChrono(data, getRedundantParserNodes(StepToNodes(data)))
        turns == sessionTurns(chrono)
        scan == TurnScan(chrono, 1, turns, sessionTurnEndBounds(turns), exists,
                    [byTurn |-> InitByTurn(turns, 1, <<>>), kernelByTurn |-> <<>>, idx |-> 1])
        chains == turnChains(turns, scan.byTurn)
    IN \A i \in 1..Len(turns) :
          SeqToSet(chains[i].chain) =
              {turns[i].nodeName} \cup
              { chrono[p].normalizedNodeName : p \in
                  { q \in 1..Len(chrono) :
                      /\ ~StartsWithParserDot(chrono[q].normalizedNodeName)
                      /\ chrono[q].normalizedNodeName \in exists
                      /\ \E j \in 1..Len(turns) :
                            /\ turns[j].nodeName = turns[i].nodeName
                            /\ InTurnWindow(turns, j, chrono[q].startMs) } }

\* the collection with every session turn's endTime replaced
WithTurnEndTime(list, nameOf(_), end(_)) ==
    [i \in 1..Len(list) |->
        IF IsSessionTurnName(nameOf(list[i]))
        THEN [list[i] EXCEPT !.endTime = end(list[i])]
        ELSE list[i]]

GraphNodeNameOf(o) == Normalized(getEffectiveRawNodeName(gData, o))
TreeNameOf(o) == o.name
EndsAtStart(o) == o.startTime
EndsNever(o) == PositiveInfinity

\* the id of the turn whose window holds t, unless that turn is the item itself
TreeWindowTurnId(turns, id, t) ==
    LET c == { i \in 1..Len(turns) : InTurnWindow(turns, i, t) } IN
    IF c = {} THEN NoId
    ELSE LET i == CHOOSE x \in c : TRUE IN
         IF turns[i].id = id THEN NoId ELSE turns[i].id

\* an item the tool-result rule or the pre-tool rule may still move
MovedByToolRules(o) ==
    ToolResultUiMatch(getUiNodeName(o.name)) \/ o.type = "TOOL"

TreeParentsFollowWindows(input, after, minLevel) ==
    LET kept == KeptPositions(input, minLevel)
        walked == ReparentToKept(input, kept)
        turns == treeSessionTurns(walked, chronological(walked, kept))
    IN \A i \in kept :
          ~MovedByToolRules(input[i]) =>
              after[i].parentObservationId =
                  IF walked[i].parentObservationId # NoId
                  THEN walked[i].parentObservationId
                  ELSE TreeWindowTurnId(turns, input[i].id, input[i].startTime)

ParentsOf(list) == [i \in 1..Len(list) |-> list[i].parentObservationId]

\* C13: in both builders an item is grouped under the turn whose window
\* [start of that turn, start of the next turn) holds its start time, the last
\* turn's window being unbounded: the graph puts an existing non-parser node in
\* that turn's chain, the tree puts an item left without parent under that
\* turn; and replacing the turns' endTime changes neither result.
C13_TurnWindows ==
    /\ GraphBuilt =>
          /\ GraphChainsFollowWindows(gData, MapKeySet(gOut.nodeToObservationsMap))
          /\ buildGraphFromStepData(WithTurnEndTime(gData, GraphNodeNameOf, EndsAtStart)) = gOut
          /\ buildGraphFromStepData(WithTurnEndTime(gData, GraphNodeNameOf, EndsNever)) = gOut
    /\ tPc = "built" =>
          /\ TreeParentsFollowWindows(tInput, tData, LastCall.minLevel)
          /\ ParentsOf(ObservationsAfterBuild(
                           WithTurnEndTime(tInput, TreeNameOf, EndsNever),
                           LastCall.minLevel)) = ParentsOf(tData)

\* a tree with two turns in which an item that starts after the first turn has
\* ended, and before the second turn starts, is put under the first turn
C13_Witness ==
    /\ tPc = "built"
    /\ \E i, a, b \in 1..Len(tInput) :
          /\ IsSessionTurnName(tInput[a].name) /\ IsSessionTurnName(tInput[b].name)
          /\ tInput[a].startTime < tInput[b].startTime
          /\ tInput[i].parentObservationId \notin { tInput[k].id : k \in 1..Len(tInput) }
          /\ tInput[i].startTime >= tInput[a].endTime
          /\ tInput[i].startTime < tInput[b].startTime
          /\ tData[i].parentObservationId = tInput[a].id

(***************************************************************************)
(* The start edge of the turn-chain path                                   *)
(***************************************************************************)
EdgesOutOfStart == { e \in gOut.edges : e[1] = LANGFUSE_START_NODE_NAME }
FirstTurnChainHead == GraphTurns(gData)[1].nodeName
TraceStartExists == TRACE_START_NODE_NAME \in MapKeySet(gOut.nodeToObservationsMap)

ParentlessSurvivors ==
    { tData[i].id : i \in { k \in KeptPositions(tData, LastCall.minLevel) :
                              tData[k].parentObservationId = NoId } }

\* the observation roots: roots itself, or the children of the TRACE node
ObservationRoots ==
    IF LastCall.rootObservationType THEN tOut.roots
    ELSE TreeNodeAt(TraceNodeId).children

RECURSIVE SumOfTotals(_)
SumOfTotals(ids) ==
    IF ids = {} THEN 0
    ELSE LET id == CHOOSE x \in ids : TRUE IN
         TreeNodeAt(id).totalCost + SumOfTotals(ids \ {id})

\* the sum of the aggregated costs of the given nodes, absent when none has one
AggregatedCostOf(ids) ==
    LET priced == { id \in ids : TreeNodeAt(id).totalCost # NoCost } IN
    IF priced = {} THEN NoCost ELSE SumOfTotals(priced)

\* C15: without rootObservationType there is exactly one root, a TRACE node of
\* depth -1 whose children are the survivors left without a parent (none when
\* nothing survives) and whose totalCost is the sum of its children's
\* aggregated costs; with rootObservationType the roots are exactly those
\* survivors, none for an empty collection.  Either list is in start order and
\* holds each root once.
C15_Roots ==
    TreeBuilt =>
        /\ SeqToSet(ObservationRoots) = ParentlessSurvivors
        /\ Len(ObservationRoots) = Cardinality(ParentlessSurvivors)
        /\ \A p, q \in 1..Len(ObservationRoots) :
              p < q => TreeNodeAt(ObservationRoots[p]).startTime
                           <= TreeNodeAt(ObservationRoots[q]).startTime
        /\ ~LastCall.rootObservationType =>
              /\ tOut.roots = <<TraceNodeId>>
              /\ TreeNodeAt(TraceNodeId).type = "TRACE"
              /\ TreeNodeAt(TraceNodeId).depth = -1
              /\ TreeNodeAt(TraceNodeId).totalCost =
                     AggregatedCostOf(SeqToSet(ObservationRoots))
        /\ LastCall.rootObservationType /\ Len(tData) = 0 => tOut.roots = <<>>

\* a TRACE node over two roots with a cost, next to a survivor that is no root
C15_Witness ==
    /\ TreeBuilt
    /\ ~LastCall.rootObservationType
    /\ Len(ObservationRoots) = 2
    /\ \A p \in 1..2 : TreeNodeAt(ObservationRoots[p]).totalCost # NoCost
    /\ Cardinality(KeptPositions(tData, LastCall.minLevel)) > 2
    /\ TreeNodeAt(TraceNodeId).totalCost > 0

(***************************************************************************)
(* The count of hidden observations                                        *)
(***************************************************************************)
\* DEBUG < DEFAULT < WARNING < ERROR
LevelOrder(level) ==
    CASE level = "DEBUG" -> 0
      [] level = "DEFAULT" -> 1
      [] level = "WARNING" -> 2
      [] level = "ERROR" -> 3

\* the positions of the observations whose level is below minLevel
BelowMinLevel(list, minLevel) ==
    IF minLevel = NoLevel THEN {}
    ELSE { i \in 1..Len(list) : LevelOrder(list[i].level) < LevelOrder(minLevel) }

\* C16: hiddenObservationsCount is the number of observations removed because
\* their level is below minLevel; an observation removed as a parser container
\* is not counted, whatever its level, and the count is 0 without minLevel.
C16_HiddenCount ==
    TreeBuilt =>
        /\ tOut.hiddenObservationsCount =
               Cardinality({ i \in BelowMinLevel(tData, LastCall.minLevel) :
                               ~isParserContainerNodeName(tData[i].name) })
        /\ LastCall.minLevel = NoLevel => tOut.hiddenObservationsCount = 0

\* a build that hides one observation by level next to a parser container whose
\* level is below minLevel too
C16_Witness ==
    /\ TreeBuilt
    /\ LastCall.minLevel # NoLevel
    /\ tOut.hiddenObservationsCount = 1
    /\ \E i \in BelowMinLevel(tData, LastCall.minLevel) :
          isParserContainerNodeName(tData[i].name)
    /\ \E i \in 1..Len(tData) : LevelOrder(tData[i].level) = LevelOrder(LastCall.minLevel)

(***************************************************************************)
(* Termination of the loops                                                *)
(***************************************************************************)
NoRepeats(s) == \A p, q \in 1..Len(s) : p # q => s[p] # s[q]

\* every loop of one call of buildTraceUiData stops within the size of its
\* collection, and the call hands back the four parts of its result
TreeLoopsFinish(rootObservationType, observations, minLevel) ==
    LET kept == KeptPositions(observations, minLevel)
        keptIds == { observations[i].id : i \in kept }
        prep == filterAndPrepareObservations(observations, minLevel)
        sorted == prep.sortedObservations
        depthQueue == DepthPassQueue(sorted, dependencyRootIds(sorted), 1)
        workQueue == buildTreeNodesBottomUp(sorted, buildDependencyGraph(sorted)).queue
        result == withSearchItems(treeOfPrepared(rootObservationType, prep))
    IN /\ \A i \in kept :
             Cardinality(AncestorWalkVisited(observations, keptIds,
                             observations[i].parentObservationId, {}))
                 <= Len(observations)
       /\ Len(depthQueue) <= Len(sorted) /\ NoRepeats(depthQueue)
       /\ Len(workQueue) <= Len(sorted) /\ NoRepeats(workQueue)
       /\ Len(result.searchItems) <= Len(result.nodeMap)
       /\ NoRepeats(result.searchItems)
       /\ DOMAIN result = {"roots", "hiddenObservationsCount", "searchItems", "nodeMap"}

\* C17: both builders return a result for every collection, whatever its
\* parent references, steps, nodes and costs: the ancestor walk, the depth
\* pass, the work queue and the pre-order stack stop within the size of the
\* collection.  The tree's collection is the caller's one at the first call
\* and the one the first call left behind at the next call.
C17_BuildersTerminate ==
    /\ GraphBuilt =>
          /\ DOMAIN gOut = {"nodes", "edges", "nodeToObservationsMap"}
          /\ Len(gData) = 0 => gOut = EmptyGraph
          /\ Len(gData) > 0 =>
                /\ gOut.nodes[1].id = LANGFUSE_START_NODE_NAME
                /\ gOut.nodes[Len(gOut.nodes)].id = LANGFUSE_END_NODE_NAME
    /\ tPc = "built" =>
          /\ TreeLoopsFinish(LastCall.rootObservationType, tInput, LastCall.minLevel)
          /\ \A minLevel \in TreeMinLevels :
                TreeLoopsFinish(LastCall.rootObservationType, tData, minLevel)

\* a collection with a parent cycle among the observations that the next call
\* removes, below one that it keeps, and a dangling parent
C17_Witness ==
    /\ tPc = "built"
    /\ \E i, a, b \in 1..Len(tData) :
          /\ a # b
          /\ tData[a].parentObservationId = tData[b].id
          /\ tData[b].parentObservationId = tData[a].id
          /\ tData[i].parentObservationId = tData[a].id
          /\ {a, b} \cap KeptPositions(tData, "ERROR") = {}
          /\ i \in KeptPositions(tData, "ERROR")
    /\ \E i \in 1..Len(tInput) :
          /\ tInput[i].parentObservationId # NoId
          /\ tInput[i].parentObservationId \notin { tInput[k].id : k \in 1..Len(tInput) }

(***************************************************************************)
(* Node identities                                                         *)
(***************************************************************************)
\* the observations with a raw label that is neither pruned nor a system name
MappedAmong(raws, prune) ==
    { i \in 1..Len(raws) :
        /\ raws[i] # Null
        /\ ~isSystemNode(raws[i])
        /\ raws[i] \notin prune }
GraphRawNames == [i \in 1..Len(gData) |-> RawName(i)]
GraphPruned == getRedundantParserNodes(StepToNodes(gData))
MappedObservations == MappedAmong(GraphRawNames, GraphPruned)

\* the steps at which a kept raw variant of the normalized name occurs
StepsOfNameAmong(raws, prune, n) ==
    { gData[i].step : i \in { j \in 1..Len(gData) :
        /\ gData[j].step # NoStep
        /\ raws[j] # Null
        /\ raws[j] \notin prune
        /\ Normalized(raws[j]) = n } }
StepsOfName(n) == StepsOfNameAmong(GraphRawNames, GraphPruned, n)

NodeIdentities(raws, prune, mapped, stepNodes, nodes, map) ==
    LET names == { Normalized(raws[i]) : i \in mapped } IN
    /\ NoRepeats([p \in 1..Len(nodes) |-> nodes[p].id])
    /\ { nodes[p].id : p \in 1..Len(nodes) } =
           names \cup {LANGFUSE_START_NODE_NAME, LANGFUSE_END_NODE_NAME}
    /\ NoRepeats(MapKeys(map))
    /\ MapKeySet(map) = names
    /\ \A n \in names :
          /\ NoRepeats(MapGet(map, n))
          /\ SeqToSet(MapGet(map, n)) =
                 { gData[i].id : i \in { j \in mapped : Normalized(raws[j]) = n } }
    /\ \A sn \in stepNodes :
          /\ \A other \in stepNodes : other[2] = sn[2] => other = sn
          /\ sn[1] \in StepsOfNameAmong(raws, prune, sn[2])
          /\ \A st \in StepsOfNameAmong(raws, prune, sn[2]) : sn[1] <= st
    /\ \A n \in names :
          StepsOfNameAmong(raws, prune, n) # {} => \E sn \in stepNodes : sn[2] = n

\* C18: the raw labels that normalize to one name yield one graph node, put at
\* the earliest step of its raw variants, and nodeToObservationsMap[name]
\* holds the ids of the observations that are neither pruned nor system
\* nodes and whose effective raw label normalizes to the name, each id once.
C18_NodeIdentities ==
    GraphBuilt /\ Len(gData) > 0 =>
        NodeIdentities(GraphRawNames, GraphPruned, MappedObservations, BuiltStepNodes,
                       gOut.nodes, gOut.nodeToObservationsMap)

\* two raw labels with one normalized name, the later one first in the input
C18_Witness ==
    /\ GraphBuilt
    /\ \E i, j \in MappedObservations :
          /\ i < j
          /\ RawName(i) # RawName(j)
          /\ Normalized(RawName(i)) = Normalized(RawName(j))
          /\ gData[j].step < gData[i].step
          /\ <<gData[j].step, Normalized(RawName(i))>> \in BuiltStepNodes
          /\ MapGet(gOut.nodeToObservationsMap, Normalized(RawName(i)))
                 = <<gData[i].id, gData[j].id>>

(***************************************************************************)
(* Reconciliation of parents                                               *)
(***************************************************************************)
\* the k-th member of the parent chain that starts at id, in the collection as
\* given; NoId once the chain has left the collection
RECURSIVE ChainAt(_, _, _)
ChainAt(list, id, k) ==
    IF k = 0 \/ id = NoId THEN id
    ELSE ChainAt(list, parentById(list, id), k - 1)

\* the first kept member of the chain, NoId when the chain has none
FirstKeptOnChain(list, keptIds, id) ==
    LET hits == { k \in 0..Len(list) : ChainAt(list, id, k) \in keptIds } IN
    IF hits = {} THEN NoId
    ELSE ChainAt(list, id, CHOOSE k \in hits : \A h \in hits : k <= h)

ParentsReconciled(list, minLevel) ==
    LET kept == KeptPositions(list, minLevel)
        keptIds == { list[i].id : i \in kept }
        walked == ReparentToKept(list, kept)
    IN \A i \in kept :
          /\ walked[i].parentObservationId =
                 FirstKeptOnChain(list, keptIds, list[i].parentObservationId)
          /\ list[i].parentObservationId \in keptIds =>
                 walked[i].parentObservationId = list[i].parentObservationId

\* a kept observation whose removed parents lie on a cycle
WalkMeetsCycle(list, minLevel) ==
    LET kept == KeptPositions(list, minLevel)
        keptIds == { list[i].id : i \in kept }
    IN \E i \in kept :
          /\ list[i].parentObservationId # NoId
          /\ \A k \in 0..(Len(list) + 1) :
                /\ ChainAt(list, list[i].parentObservationId, k) # NoId
                /\ ChainAt(list, list[i].parentObservationId, k) \notin keptIds

\* a first call has left a cycle behind that the next call's walk runs into
CycleBeforeNextCall ==
    tPc = "built" /\ WalkMeetsCycle(tData, "ERROR")

\* C19: after filtering, and before the turn, tool-result and pre-tool rules,
\* a survivor whose parent was removed has the nearest surviving ancestor of
\* its original parent chain as parent, and none when that chain ends or runs
\* into a cycle first; a survivor whose parent survived keeps it.  Checked for
\* the caller's collection and for the collection a first call leaves behind.
C19_NearestSurvivingAncestor ==
    tPc = "built" =>
        /\ ParentsReconciled(tInput, LastCall.minLevel)
        /\ \A minLevel \in TreeMinLevels : ParentsReconciled(tData, minLevel)

\* a survivor that is handed the parent of the parent of its removed parent
C19_Witness ==
    /\ tPc = "built"
    /\ LET kept == KeptPositions(tInput, LastCall.minLevel)
           keptIds == { tInput[i].id : i \in kept }
       IN \E i \in kept :
             /\ tInput[i].parentObservationId \notin keptIds
             /\ ChainAt(tInput, tInput[i].parentObservationId, 1) \notin keptIds
             /\ ChainAt(tInput, tInput[i].parentObservationId, 2) \in keptIds
             /\ ReparentToKept(tInput, kept)[i].parentObservationId =
                    ChainAt(tInput, tInput[i].parentObservationId, 2)

(***************************************************************************)
(* The own cost of a node                                                  *)
(***************************************************************************)
\* inputCost + outputCost, an absent one counted as zero
InputPlusOutput(obs) ==
    (IF obs.inputCost # NoCost THEN obs.inputCost ELSE 0)
        + (IF obs.outputCost # NoCost THEN obs.outputCost ELSE 0)

\* the own cost as stated: totalCost when present and not zero, else
\* inputCost + outputCost when not zero, else absent
StatedOwnCost(obs) ==
    IF obs.totalCost # NoCost /\ obs.totalCost # 0 THEN obs.totalCost
    ELSE IF InputPlusOutput(obs) # 0 THEN InputPlusOutput(obs)
    ELSE NoCost

\* the own cost with a present totalCost deciding alone
OwnCostTotalFirst(obs) ==
    IF obs.totalCost # NoCost
    THEN (IF obs.totalCost # 0 THEN obs.totalCost ELSE NoCost)
    ELSE IF InputPlusOutput(obs) # 0 THEN InputPlusOutput(obs)
    ELSE NoCost

\* own cost and the children's aggregated cost together, either may be absent
CostWithChildren(own, id) ==
    LET below == AggregatedCostOf(SeqToSet(TreeNodeAt(id).children)) IN
    IF own = NoCost THEN below
    ELSE IF below = NoCost THEN own
    ELSE own + below

\* C20 as stated: a zero totalCost falls back on inputCost + outputCost
C20_ZeroTotalFallsBack ==
    TreeBuilt =>
        \A id \in TreeNodeIds \ {TraceNodeId} :
            TreeNodeAt(id).totalCost =
                CostWithChildren(StatedOwnCost(ObsOf(tData, id)), id)

\* C20: a node's own cost is its totalCost when that is present and not zero;
\* it is inputCost + outputCost when totalCost is absent and that sum is not
\* zero; it is absent otherwise, also when totalCost is present and zero.
C20_OwnCost ==
    TreeBuilt =>
        \A id \in TreeNodeIds \ {TraceNodeId} :
            TreeNodeAt(id).totalCost =
                CostWithChildren(OwnCostTotalFirst(ObsOf(tData, id)), id)

\* a node without priced children whose inputCost + outputCost is zero
ZeroSumNodeBuilt ==
    /\ TreeBuilt
    /\ \E id \in TreeNodeIds \ {TraceNodeId} :
          /\ ObsOf(tData, id).totalCost = NoCost
          /\ ObsOf(tData, id).inputCost = 0
          /\ TreeNodeAt(id).totalCost = NoCost

\* a leaf with a zero totalCost and a priced input, next to a leaf priced by
\* input and output
C20_Witness ==
    /\ TreeBuilt
    /\ \E id \in TreeNodeIds \ {TraceNodeId} :
          /\ ObsOf(tData, id).totalCost = 0
          /\ InputPlusOutput(ObsOf(tData, id)) > 0
          /\ TreeNodeAt(id).children = <<>>
          /\ TreeNodeAt(id).totalCost = NoCost
    /\ \E id \in TreeNodeIds \ {TraceNodeId} :
          /\ ObsOf(tData, id).totalCost = NoCost
          /\ TreeNodeAt(id).children = <<>>
          /\ TreeNodeAt(id).totalCost = InputPlusOutput(ObsOf(tData, id))
          /\ TreeNodeAt(id).totalCost > 0

(***************************************************************************)
(* The order of bottom-up construction                                     *)
(***************************************************************************)
\* the observation nodes in the order in which nodeMap received them
FinalizationOrder == SelectSeq(MapKeys(tOut.nodeMap), LAMBDA id : id # TraceNodeId)

PositionIn(s, x) == CHOOSE p \in 1..Len(s) : s[p] = x

\* the survivors of the build, each as <<id, parent>>
SurvivorPairs ==
    { <<tData[k].id, tData[k].parentObservationId>> :
        k \in KeptPositions(tData, LastCall.minLevel) }

ChildrenAmong(pairs, id) == { x[1] : x \in { y \in pairs : y[2] = id } }

\* the survivors that the build has left with the parent id
SurvivingChildrenOf(id) == ChildrenAmong(SurvivorPairs, id)

\* the position at which the last child of id was finalized
LastChildPosition(order, pairs, id) ==
    CHOOSE p \in 1..Len(order) :
        /\ order[p] \in ChildrenAmong(pairs, id)
        /\ \A c \in ChildrenAmong(pairs, id) : PositionIn(order, c) <= p

ChildrenFirst(order, pairs, nodeMap) ==
    LET done == SeqToSet(order)
        parents == { id \in done : ChildrenAmong(pairs, id) # {} }
    IN /\ NoRepeats(order)
       /\ \A id \in done :
             /\ ChildrenAmong(pairs, id) \subseteq done
             /\ \A c \in ChildrenAmong(pairs, id) :
                   PositionIn(order, c) < PositionIn(order, id)
             /\ SeqToSet(MapGet(nodeMap, id).children) = ChildrenAmong(pairs, id)
             /\ NoRepeats(MapGet(nodeMap, id).children)
       /\ \A a \in parents : \A l \in done \ parents :
             PositionIn(order, l) < PositionIn(order, a)
       /\ \A a, b \in parents :
             LastChildPosition(order, pairs, a) < LastChildPosition(order, pairs, b)
                 => PositionIn(order, a) < PositionIn(order, b)

\* C21: a node is finalized only after each of its children, every node is
\* finalized at most once, the leaves come first and a parent is enqueued when
\* its last child completes, so that parents are finalized in the order in
\* which their last children were, and the children list of a finalized node
\* holds all of its children.
C21_ChildrenFirst ==
    TreeBuilt => ChildrenFirst(FinalizationOrder, SurvivorPairs, tOut.nodeMap)

\* a chain of three generations, finalized from the bottom
ThreeGenerationsBuilt ==
    /\ TreeBuilt
    /\ \E a, b, c \in SeqToSet(FinalizationOrder) :
          /\ a \in SurvivingChildrenOf(b)
          /\ b \in SurvivingChildrenOf(c)
          /\ PositionIn(FinalizationOrder, a) < PositionIn(FinalizationOrder, b)
          /\ PositionIn(FinalizationOrder, b) < PositionIn(FinalizationOrder, c)

\* a parent that is finalized after its two children and after a leaf that is
\* not its child
C21_Witness ==
    /\ TreeBuilt
    /\ \E a, l \in SeqToSet(FinalizationOrder) :
          /\ Cardinality(SurvivingChildrenOf(a)) = 2
          /\ Len(TreeNodeAt(a).children) = 2
          /\ l \notin SurvivingChildrenOf(a)
          /\ SurvivingChildrenOf(l) = {}
          /\ PositionIn(FinalizationOrder, l) < PositionIn(FinalizationOrder, a)

(***************************************************************************)
(* Depth and height                                                        *)
(***************************************************************************)
RECURSIVE MaxOf(_)
MaxOf(S) ==
    IF S = {} THEN 0
    ELSE LET x == CHOOSE y \in S : TRUE
             rest == MaxOf(S \ {x})
         IN IF x > rest THEN x ELSE rest

\* depth as stated: 0 without a parent, the parent's depth plus one with one
DepthAsStated(id) ==
    LET parent == TreeNodeAt(id).parentObservationId IN
    IF parent = NoId THEN TreeNodeAt(id).depth = 0
    ELSE /\ parent \in TreeNodeIds
         /\ TreeNodeAt(id).depth = TreeNodeAt(parent).depth + 1

\* childrenDepth as stated: the height of the subtree
HeightAsStated(id) ==
    LET ch == SeqToSet(TreeNodeAt(id).children) IN
    TreeNodeAt(id).childrenDepth =
        IF ch = {} THEN 0
        ELSE 1 + MaxOf({ TreeNodeAt(c).childrenDepth : c \in ch })

\* C22 as claimed, for collections whose parent references hold no cycle: an
\* observation node has depth 0 without a surviving parent and the depth of
\* its parent plus one otherwise, and its childrenDepth is the height of its
\* subtree.
C22_DepthAndHeight ==
    (tPc = "built" /\ ParentsAcyclic(tInput)) =>
        \A id \in TreeNodeIds \ {TraceNodeId} :
            DepthAsStated(id) /\ HeightAsStated(id)

(***************************************************************************)
(* Membership of the turn chains                                           *)
(***************************************************************************)
OnTurnPath(v) == Len(v.turns) > 0
TurnNamesDistinct(v) == NoRepeats([i \in 1..Len(v.turns) |-> v.turns[i].nodeName])

\* the nodes a chain can hold besides its turn marker
ChainCandidates(exists) ==
    { n \in exists : ~StartsWithParserDot(n) /\ ~IsSessionTurnName(n) }

\* the start times of the node's observations that fall inside turn i's window
StartsInWindow(chrono, turns, i, n) ==
    { chrono[p].startMs : p \in
        { q \in 1..Len(chrono) :
            /\ chrono[q].normalizedNodeName = n
            /\ InTurnWindow(turns, i, chrono[q].startMs) } }

FirstOccurrenceDecides(v) ==
    (OnTurnPath(v) /\ TurnNamesDistinct(v)) =>
        \A i \in 1..Len(v.chains) : \A n \in ChainCandidates(v.exists) :
            n \in SeqToSet(v.chains[i].chain)
                <=> InTurnWindow(v.turns, i, NodeFirstStart(v.chrono, n))

AnyOccurrenceInWindow(v) ==
    (OnTurnPath(v) /\ TurnNamesDistinct(v)) =>
        \A i \in 1..Len(v.chains) : \A n \in ChainCandidates(v.exists) :
            LET inner == MapGet(v.byTurn, v.turns[i].nodeName)
                starts == StartsInWindow(v.chrono, v.turns, i, n)
            IN /\ n \in SeqToSet(v.chains[i].chain) <=> starts # {}
               /\ starts # {} =>
                     /\ MapHas(inner, n)
                     /\ MapGet(inner, n) \in starts
                     /\ \A t \in starts : MapGet(inner, n) <= t

LateOccurrenceInChain(v) ==
    /\ OnTurnPath(v) /\ TurnNamesDistinct(v)
    /\ \E i \in 1..Len(v.chains) : \E n \in ChainCandidates(v.exists) :
          /\ ~InTurnWindow(v.turns, i, NodeFirstStart(v.chrono, n))
          /\ StartsInWindow(v.chrono, v.turns, i, n) # {}
          /\ n \in SeqToSet(v.chains[i].chain)

ChainOrdered(turnNode, inner, chain) ==
    /\ chain[1] = turnNode
    /\ \A j \in 2..(Len(chain) - 1) : MapGet(inner, chain[j]) <= MapGet(inner, chain[j + 1])

ConsecutiveInChain(chain) ==
    { <<chain[j], chain[j + 1]>> : j \in 1..(Len(chain) - 1) }

EdgesAmong(edges, members) ==
    { e \in edges : e[1] \in members /\ e[2] \in members }

BetweenTurns(chains) ==
    { <<Last(chains[i].chain), chains[i + 1].turnNode>> : i \in 1..(Len(chains) - 1) }

LinearChains(v, edges) ==
    OnTurnPath(v) =>
        /\ \A i \in 1..Len(v.chains) :
              /\ ChainOrdered(v.chains[i].turnNode, MapGet(v.byTurn, v.chains[i].turnNode),
                              v.chains[i].chain)
              /\ EdgesAmong(edges, SeqToSet(v.chains[i].chain))
                     = ConsecutiveInChain(v.chains[i].chain)
        /\ BetweenTurns(v.chains) \subseteq edges

ChainEdgesAsBuilt(v, edges) ==
    LET allConsecutive == UNION { ConsecutiveInChain(v.chains[i].chain) : i \in 1..Len(v.chains) }
        members == UNION { SeqToSet(v.chains[i].chain) : i \in 1..Len(v.chains) }
    IN OnTurnPath(v) =>
       /\ \A i \in 1..Len(v.chains) :
             ChainOrdered(v.chains[i].turnNode, MapGet(v.byTurn, v.chains[i].turnNode),
                          v.chains[i].chain)
       /\ allConsecutive \subseteq edges
       /\ \A e \in BetweenTurns(v.chains) : e[1] # e[2] => e \in edges
       /\ EdgesAmong(edges, members) \subseteq
              (allConsecutive \cup BetweenTurns(v.chains)
                 \cup {<<TRACE_START_NODE_NAME, firstTurnMainNode(v.chains)>>})

LinkedToNextTurn(v, edges) ==
    /\ OnTurnPath(v) /\ TurnNamesDistinct(v)
    /\ \E i \in 1..(Len(v.chains) - 1) :
          /\ Len(v.chains[i].chain) >= 2
          /\ EdgesAmong(edges, SeqToSet(v.chains[i].chain))
                 = ConsecutiveInChain(v.chains[i].chain)
          /\ <<Last(v.chains[i].chain), v.chains[i + 1].turnNode>> \in edges

RECURSIVE ReachedFrom(_, _)
ReachedFrom(edges, seen) ==
    LET next == seen \cup { e[2] : e \in { d \in edges : d[1] \in seen } } IN
    IF next = seen THEN seen ELSE ReachedFrom(edges, next)

OnCycle(edges, n) ==
    n \in ReachedFrom(edges, { e[2] : e \in { d \in edges : d[1] = n } })

Acyclic(edges) == \A e \in edges : ~OnCycle(edges, e[1])

\* C25 as claimed: the edge set of the returned graph has no directed cycle,
\* whichever path built it.
C25_NoDirectedCycle ==
    GraphBuilt => Acyclic(gOut.edges)

(***************************************************************************)
(* The edges of the fallback path                                          *)
(***************************************************************************)
\* forcedParentByNodeName of the build, as the set of <<parent, child>>
GraphForcedPairs ==
    LET forced == ForcedParents(GraphChrono, 1, <<>>, <<>>, GraphExists,
                                [forced |-> <<>>, kernel |-> Null, idx |-> 1])
    IN { <<forced[i].v, forced[i].k>> : i \in 1..Len(forced) }

\* the pairs the fallback path is said to join: step to next occupied step, final
\* step to the end node
StepPairs(stepNodes) ==
    { p \in stepNodes \X stepNodes :
        /\ p[1][1] < p[2][1]
        /\ \A z \in stepNodes : ~(p[1][1] < z[1] /\ z[1] < p[2][1]) }

StepJoins(stepNodes) ==
    { <<p[1][2], p[2][2]>> : p \in StepPairs(stepNodes) }
        \cup { <<x[2], LANGFUSE_END_NODE_NAME>> :
                 x \in { y \in stepNodes : \A z \in stepNodes : z[1] <= y[1] } }

\* the edge invariants: no self-loop, nothing into the start node, nothing out
\* of the end node or of a parser node
AllowedEdge(e) ==
    /\ e[1] # e[2]
    /\ e[2] # LANGFUSE_START_NODE_NAME
    /\ e[1] # LANGFUSE_END_NODE_NAME
    /\ ~StartsWithParserDot(e[1])

FallbackEdgesAsStated(stepNodes, forcedPairs, edges) ==
    edges = { e \in StepJoins(stepNodes) \cup forcedPairs : AllowedEdge(e) }

FallbackWithForcedEdge(stepNodes, forcedPairs, edges) ==
    /\ \E e \in edges : e \in StepJoins(stepNodes) /\ e[2] # LANGFUSE_END_NODE_NAME
    /\ \E e \in edges : e \in forcedPairs /\ e \notin StepJoins(stepNodes)

TurnHolding(v, n) ==
    LET hit == { i \in 1..Len(v.turns) : InTurnWindow(v.turns, i, NodeFirstStart(v.chrono, n)) }
    IN IF hit = {} THEN 0 ELSE CHOOSE i \in hit : \A j \in hit : i <= j

\* the positions in start order of the kernel observations inside turn i's window
KernelsInWindow(v, i) ==
    { q \in 1..Len(v.chrono) :
        /\ IsKernelName(v.chrono[q].name)
        /\ InTurnWindow(v.turns, i, v.chrono[q].startMs) }

LastOf(v, positions) ==
    IF positions = {} THEN Null
    ELSE v.chrono[CHOOSE q \in positions : \A r \in positions : r <= q].normalizedNodeName

\* the last kernel node of the window that starts no later than the node
KernelBefore(v, n) ==
    IF TurnHolding(v, n) = 0 THEN Null
    ELSE LastOf(v, { q \in KernelsInWindow(v, TurnHolding(v, n)) :
                       v.chrono[q].startMs <= NodeFirstStart(v.chrono, n) })

\* the last kernel node of the window, whenever it starts
KernelOfWindow(v, n) ==
    IF TurnHolding(v, n) = 0 THEN Null
    ELSE LastOf(v, KernelsInWindow(v, TurnHolding(v, n)))

ToolParent(v, n) ==
    IF ToolResultUiMatch(n) THEN <<n[2], n[3]>>
    ELSE IF ToolCallUiMatch(n) THEN <<n[4], n[5]>>
    ELSE Null

\* the parents a parser node can have: kernelOf picks the kernel node
SemanticParents(v, n, kernelOf(_, _)) ==
    LET parent == IF ToolParent(v, n) # Null THEN ToolParent(v, n)
                  ELSE IF StructuredOutputUiMatch(n) THEN kernelOf(v, n)
                  ELSE Null
    IN IF parent # Null /\ parent \in v.exists THEN {parent} ELSE {}

ParserNodesAttached(v, edges, kernelOf(_, _)) ==
    (OnTurnPath(v) /\ TurnNamesDistinct(v)) =>
        \A n \in { x \in v.exists : StartsWithParserDot(x) } :
            /\ \A i \in 1..Len(v.chains) : n \notin SeqToSet(v.chains[i].chain)
            /\ { e[1] : e \in { d \in edges : d[2] = n } }
                   = SemanticParents(v, n, kernelOf)

KernelAfterOutput(v, edges) ==
    /\ OnTurnPath(v) /\ TurnNamesDistinct(v)
    /\ \E n \in { x \in v.exists : StructuredOutputUiMatch(x) } :
          /\ KernelOfWindow(v, n) # Null
          /\ KernelBefore(v, n) = Null
          /\ <<KernelOfWindow(v, n), n>> \in edges

ToolResultAttached(v, edges) ==
    /\ OnTurnPath(v)
    /\ \E n \in { x \in v.exists : ToolResultUiMatch(x) } :
          { e[1] : e \in { d \in edges : d[2] = n } } = {<<n[2], n[3]>>}

\* a tool-result node under its tool node
ToolResultUnderTool ==
    GraphBuilt /\ ToolResultAttached(GraphView, gOut.edges)

(***************************************************************************)
(* Tool results in the tree                                                *)
(***************************************************************************)
\* the parents the observations would be left with by the other rules alone
OtherRulesOnTurns(walked, chrono, turns) ==
    ParentsOf(ApplyUiParentsNoToolResult(chrono, 1, turns, sessionTurnEndBounds(turns),
                  [list |-> walked, byName |-> <<>>, pre |-> <<>>, idx |-> 1]))
OtherRulesInOrder(walked, chrono) ==
    OtherRulesOnTurns(walked, chrono, treeSessionTurns(walked, chrono))
OtherRulesOnSurvivors(walked, kept) ==
    OtherRulesInOrder(walked, chronological(walked, kept))
OtherRulesOnKept(list, kept) ==
    OtherRulesOnSurvivors(ReparentToKept(list, kept), kept)
ParentsWithoutToolRule(list, minLevel) ==
    OtherRulesOnKept(list, KeptPositions(list, minLevel))

\* the survivors seen before position p of the start-time order whose
\* normalized name is the tool node of the tool-result name ui, as positions of
\* that order
ToolNodesSeen(list, chrono, p, ui) ==
    { q \in 1..(p - 1) : getUiNodeName(list[chrono[q]].name) = <<ui[2], ui[3]>> }

ToolResultsUnderTools(input, chrono, otherwise, after) ==
    \A p \in 1..Len(chrono) :
        LET ui == getUiNodeName(input[chrono[p]].name)
            seen == ToolNodesSeen(input, chrono, p, ui)
        IN ToolResultUiMatch(ui) =>
              IF seen # {}
              THEN after[chrono[p]].parentObservationId
                       = input[chrono[CHOOSE q \in seen : \A r \in seen : r <= q]].id
              ELSE after[chrono[p]].parentObservationId = otherwise[chrono[p]]

\* C28: after a first build, a survivor whose normalized name is
\* parser.<tool>.<index> has for parent the survivor seen last before it, in
\* start-time order, whose normalized name is <tool>.<index>, whatever parent it
\* had; when there is none its parent is the one the other rules leave it.
C28_ToolResultUnderTool ==
    tPc = "built" =>
        ToolResultsUnderTools(tInput,
            chronological(tInput, KeptPositions(tInput, LastCall.minLevel)),
            ParentsWithoutToolRule(tInput, LastCall.minLevel), tData)

ToolResultMoved(input, chrono, after) ==
    \E p \in 1..Len(chrono) :
        LET ui == getUiNodeName(input[chrono[p]].name)
            seen == ToolNodesSeen(input, chrono, p, ui)
        IN /\ ToolResultUiMatch(ui)
           /\ Cardinality(seen) = 2
           /\ input[chrono[p]].parentObservationId \in
                  { input[chrono[q]].id : q \in 1..Len(chrono) }
           /\ after[chrono[p]].parentObservationId
                  # input[chrono[p]].parentObservationId
           /\ after[chrono[p]].parentObservationId
                  = input[chrono[CHOOSE q \in seen : \A r \in seen : r <= q]].id

\* a tool result with a surviving explicit parent and two tool nodes seen before
\* it is moved under the later of the two
C28_Witness ==
    /\ tPc = "built"
    /\ ToolResultMoved(tInput,
           chronological(tInput, KeptPositions(tInput, LastCall.minLevel)), tData)

(***************************************************************************)
(* The flat list of the tree                                               *)
(***************************************************************************)
\* the pre-order listing of the subtrees of the given nodes, one after another
RECURSIVE PreOrderOf(_, _)
PreOrderOf(nodeMap, ids) ==
    IF Len(ids) = 0 THEN <<>>
    ELSE <<Head(ids)>> \o PreOrderOf(nodeMap, MapGet(nodeMap, Head(ids)).children)
                       \o PreOrderOf(nodeMap, Tail(ids))

ListsEveryNodeOnce(out) ==
    /\ out.searchItems = PreOrderOf(out.nodeMap, out.roots)
    /\ NoRepeats(out.searchItems)
    /\ SeqToSet(out.searchItems) = MapKeySet(out.nodeMap)
    /\ Len(out.searchItems) = Len(out.nodeMap)

\* C29 as claimed, for collections whose parent references hold no cycle:
\* searchItems is the pre-order listing of the tree from its roots, and it
\* lists every node of nodeMap exactly once.
C29_SearchItemsCoverNodeMap ==
    (tPc = "built" /\ ParentsAcyclic(tInput)) => ListsEveryNodeOnce(tOut)

(***************************************************************************)
(* Edges and the node set                                                  *)
(***************************************************************************)
EndpointsAreNodes(nodes, edges) ==
    LET ids == { nodes[i].id : i \in 1..Len(nodes) } IN
    \A e \in edges : e[1] \in ids /\ e[2] \in ids

TurnPathEdgesJoinNodes ==
    /\ GraphBuilt /\ UsedTurnPath
    /\ Cardinality(gOut.edges) >= 4
    /\ \E e \in gOut.edges : StartsWithParserDot(e[2])
    /\ EndpointsAreNodes(gOut.nodes, gOut.edges)

====
